---- MODULE Spec2Model ----
(***************************************************************************)
(* MinerU MCP server (src/src/mineru_mcp/server.py): the tools            *)
(* create_parse_task and convert_to_markdown, with the validator, the     *)
(* decomposer, the two-step upload and the poll-and-fetch loop.           *)
(*                                                                         *)
(* Python None is the string "None" where the value is a string and       *)
(* NoPageCount where it is a page count.  External answers (upload,       *)
(* status, download, HEAD probe) are chosen by \E from small sets.        *)
(***************************************************************************)
EXTENDS Integers, Sequences, FiniteSets, TLC

(* ------------------------------------------------------------------ *)
(* Program constants                                                   *)
(* ------------------------------------------------------------------ *)
MiB == 1024 * 1024

MAX_FILE_SIZE_BYTES == 200 * MiB

MAX_PAGES == 600

SPLIT_CHUNK_SIZE_MB == 180

SUPPORTED_FORMATS ==
    {".pdf", ".doc", ".docx", ".ppt", ".pptx", ".png", ".jpg", ".jpeg", ".html"}

\* extension -> MIME type, as the dict's items() are searched
MimeOf(ext) ==
    CASE ext = ".pdf"  -> "application/pdf"
      [] ext = ".doc"  -> "application/msword"
      [] ext = ".docx" -> "application/vnd.openxmlformats-officedocument.wordprocessingml.document"
      [] ext = ".ppt"  -> "application/vnd.ms-powerpoint"
      [] ext = ".pptx" -> "application/vnd.openxmlformats-officedocument.presentationml.presentation"
      [] ext = ".png"  -> "image/png"
      [] ext = ".jpg"  -> "image/jpeg"
      [] ext = ".jpeg" -> "image/jpeg"
      [] ext = ".html" -> "text/html"

(* ------------------------------------------------------------------ *)
(* Bounds of the model                                                 *)
(* ------------------------------------------------------------------ *)
\* largest max_wait_seconds a caller passes (the smallest is -1)
MaxWait == 3

\* largest poll_interval a caller passes (the smallest is -1)
MaxPoll == 2

\* largest total page count given to build_page_ranges on its own
MaxTotalPages == 1300

\* largest file size given to split_large_pdf on its own, in chunks of
\* SPLIT_CHUNK_SIZE_MB
MaxSizeChunks == 4

\* largest max_wait_seconds of the two alias invocations run side by side
MaxAliasWait == 2

\* largest max_wait_seconds of two invocations running concurrently
MaxPairWait == 1

\* validations of one locator in a row
MaxValidations == 2

\* tool invocations followed after the server has started
MaxServed == 3

\* a unit's polling loop is followed for at most this many status fetches;
\* with poll_interval >= 1 a loop makes at most MaxWait of them
FetchCap == MaxWait + 2

NoPageCount == 0 - 1

Min(a, b) == IF a < b THEN a ELSE b

Max(a, b) == IF a > b THEN a ELSE b

(* ------------------------------------------------------------------ *)
(* Decomposer                                                          *)
(* ------------------------------------------------------------------ *)
\* build_page_ranges with the end of a range one page too far
RECURSIVE PageRangeLoop_Overlap(_, _)
PageRangeLoop_Overlap(start, total_pages) ==
    IF start >= total_pages
    THEN << >>
    ELSE << [start |-> start,
             end   |-> Min(start + MAX_PAGES, total_pages - 1)] >>
         \o PageRangeLoop_Overlap(start + MAX_PAGES, total_pages)

\* the body of the for loop of build_page_ranges, from `start` on:
\* range(start, total_pages, MAX_PAGES)
RECURSIVE PageRangeLoop(_, _)
PageRangeLoop(start, total_pages) ==
    IF start >= total_pages
    THEN << >>
    ELSE << [start |-> start,
             end   |-> Min(start + MAX_PAGES - 1, total_pages - 1)] >>
         \o PageRangeLoop(start + MAX_PAGES, total_pages)

\* f"{start}-{end}"
PageRangeStr(r) == ToString(r.start) \o "-" \o ToString(r.end)

build_page_ranges(total_pages) ==
    LET rs == PageRangeLoop(0, total_pages)
    IN  [k \in 1..Len(rs) |-> PageRangeStr(rs[k])]

\* split_large_pdf without the clip of the last chunk to total_pages
RECURSIVE SplitLoop_NoClip(_, _, _, _, _)
SplitLoop_NoClip(i, chunk_count, pages_per_chunk, total_pages, stem) ==
    IF i >= chunk_count \/ i * pages_per_chunk >= total_pages
    THEN << >>
    ELSE << [path       |-> stem \o "_chunks/" \o stem \o "_part"
                                 \o ToString(i + 1) \o ".pdf",
             start_page |-> i * pages_per_chunk,
             end_page   |-> (i + 1) * pages_per_chunk] >>
         \o SplitLoop_NoClip(i + 1, chunk_count, pages_per_chunk, total_pages, stem)

\* the for loop of split_large_pdf: one chunk file per iteration, until the
\* chunk would start past the last page
RECURSIVE SplitLoop(_, _, _, _, _)
SplitLoop(i, chunk_count, pages_per_chunk, total_pages, stem) ==
    IF i >= chunk_count \/ i * pages_per_chunk >= total_pages
    THEN << >>
    ELSE << [path       |-> stem \o "_chunks/" \o stem \o "_part"
                                 \o ToString(i + 1) \o ".pdf",
             start_page |-> i * pages_per_chunk,
             end_page   |-> Min((i + 1) * pages_per_chunk, total_pages)] >>
         \o SplitLoop(i + 1, chunk_count, pages_per_chunk, total_pages, stem)

\* int(file_size_mb / SPLIT_CHUNK_SIZE_MB) + 1
chunks_by_size(file_size) == (file_size \div (SPLIT_CHUNK_SIZE_MB * MiB)) + 1

chunks_by_pages(total_pages) == (total_pages + MAX_PAGES - 1) \div MAX_PAGES

chunk_count(file_size, total_pages) ==
    Max(chunks_by_size(file_size), chunks_by_pages(total_pages))

\* the chunks written by split_large_pdf for a readable PDF; `stem` is the
\* file's path without ".pdf"
split_large_pdf(stem, file_size, total_pages) ==
    LET n == chunk_count(file_size, total_pages)
    IN  IF n <= 1
        THEN << [path |-> stem \o ".pdf", start_page |-> 0, end_page |-> total_pages] >>
        ELSE SplitLoop(0, n, (total_pages + n - 1) \div n, total_pages, stem)

(* ------------------------------------------------------------------ *)
(* Documents a caller may name                                         *)
(* ------------------------------------------------------------------ *)
\* A local path: whether it is a file, its suffix, its size in bytes and
\* what _get_page_count returns for it (NoPageCount for None: no
\* introspector, or the introspector raised).
LocalDoc(exists, ext, file_size, page_count) ==
    [is_url |-> FALSE, exists |-> exists, ext |-> ext, file_size |-> file_size,
     page_count |-> page_count,
     head_ok |-> FALSE, content_length |-> 0, content_type |-> ""]

\* A URL: the suffix of its path ("" for none) and the answer of the HEAD
\* probe: it raises, or gives Content-Length (0 for absent) and Content-Type.
UrlDoc(ext, head_ok, content_length, content_type) ==
    [is_url |-> TRUE, exists |-> FALSE, ext |-> ext, file_size |-> 0,
     page_count |-> NoPageCount,
     head_ok |-> head_ok, content_length |-> content_length,
     content_type |-> content_type]

LocalDocuments ==
    { LocalDoc(FALSE, ".pdf", 0, NoPageCount),
      LocalDoc(TRUE, ".txt", 10 * MiB, NoPageCount),
      LocalDoc(TRUE, ".pdf", 0, NoPageCount),
      LocalDoc(TRUE, ".png", 10 * MiB, NoPageCount),
      LocalDoc(TRUE, ".html", 10 * MiB, NoPageCount),
      LocalDoc(TRUE, ".docx", 250 * MiB, 40) }
    \cup { LocalDoc(TRUE, ".pdf", 50 * MiB, n) :
             n \in {NoPageCount, MAX_PAGES, 650, 2 * MAX_PAGES + 1} }
    \cup { LocalDoc(TRUE, ".pdf", MAX_FILE_SIZE_BYTES, MAX_PAGES + 1) }
    \cup { LocalDoc(TRUE, ".pdf", 250 * MiB, n) :
             n \in {NoPageCount, 0, 1, 620, 2 * MAX_PAGES + 100} }

UrlDocuments ==
    { UrlDoc(e, FALSE, 0, "") : e \in {"", ".pdf", ".txt"} }
    \cup { UrlDoc(e, TRUE, len, "application/pdf") :
             e \in {".pdf", ".txt"}, len \in {0, 50 * MiB, 500 * MiB} }
    \cup { UrlDoc("", TRUE, 50 * MiB, ct) :
             ct \in {"text/html; charset=utf-8", "text/plain", ""} }

Documents == LocalDocuments \cup UrlDocuments

(* ------------------------------------------------------------------ *)
(* Format classifier and limits validator                              *)
(* ------------------------------------------------------------------ *)
Validation(valid, error, extension, file_size, page_count, split, ranges) ==
    [valid |-> valid, error |-> error, extension |-> extension,
     file_size |-> file_size, page_count |-> page_count,
     needs_splitting |-> split, use_page_ranges |-> ranges]

\* validate_local_file without the test for an empty file
validate_local_file_EmptyOk(doc) ==
    IF ~doc.exists
    THEN Validation(FALSE, "File not found", "None", 0, NoPageCount, FALSE, FALSE)
    ELSE IF doc.ext \notin SUPPORTED_FORMATS
    THEN Validation(FALSE, "Unsupported file format", doc.ext, 0, NoPageCount,
                    FALSE, FALSE)
    ELSE Validation(TRUE, "None", doc.ext, doc.file_size, doc.page_count,
                    doc.ext = ".pdf" /\ doc.file_size > MAX_FILE_SIZE_BYTES,
                    /\ doc.ext = ".pdf"
                    /\ ~(doc.file_size > MAX_FILE_SIZE_BYTES)
                    /\ doc.page_count # NoPageCount
                    /\ doc.page_count > MAX_PAGES)

\* validate_local_file with the page ceiling looked at whatever the size
validate_local_file_PagesAnySize(doc) ==
    IF ~doc.exists
    THEN Validation(FALSE, "File not found", "None", 0, NoPageCount, FALSE, FALSE)
    ELSE IF doc.ext \notin SUPPORTED_FORMATS
    THEN Validation(FALSE, "Unsupported file format", doc.ext, 0, NoPageCount,
                    FALSE, FALSE)
    ELSE IF doc.file_size = 0
    THEN Validation(FALSE, "File is empty (0 bytes)", doc.ext, 0, NoPageCount,
                    FALSE, FALSE)
    ELSE Validation(TRUE, "None", doc.ext, doc.file_size, doc.page_count,
                    doc.ext = ".pdf" /\ doc.file_size > MAX_FILE_SIZE_BYTES,
                    /\ doc.ext = ".pdf"
                    /\ doc.page_count # NoPageCount
                    /\ doc.page_count > MAX_PAGES)

validate_local_file(doc) ==
    IF ~doc.exists
    THEN Validation(FALSE, "File not found", "None", 0, NoPageCount, FALSE, FALSE)
    ELSE IF doc.ext \notin SUPPORTED_FORMATS
    THEN Validation(FALSE, "Unsupported file format", doc.ext, 0, NoPageCount,
                    FALSE, FALSE)
    ELSE IF doc.file_size = 0
    THEN Validation(FALSE, "File is empty (0 bytes)", doc.ext, 0, NoPageCount,
                    FALSE, FALSE)
    ELSE Validation(TRUE, "None", doc.ext, doc.file_size, doc.page_count,
                    doc.ext = ".pdf" /\ doc.file_size > MAX_FILE_SIZE_BYTES,
                    /\ doc.ext = ".pdf"
                    /\ ~(doc.file_size > MAX_FILE_SIZE_BYTES)
                    /\ doc.page_count # NoPageCount
                    /\ doc.page_count > MAX_PAGES)

_guess_format_from_url(doc) ==
    IF doc.ext # "" /\ doc.ext \in SUPPORTED_FORMATS THEN doc.ext ELSE "None"

\* content_type.lower().split(';')[0].strip() for the Content-Type values
\* of UrlDocuments
ContentTypeHead(content_type) ==
    IF content_type = "text/html; charset=utf-8" THEN "text/html" ELSE content_type

_guess_format_from_content_type(content_type) ==
    LET ct == ContentTypeHead(content_type)
        hits == { e \in SUPPORTED_FORMATS : MimeOf(e) = ct }
    IN  IF hits = {} THEN "None"
        ELSE IF ".jpg" \in hits THEN ".jpg"      \* the dict's first match
        ELSE CHOOSE e \in hits : TRUE

\* validate_url without the test of Content-Length
validate_url_NoSizeTest(doc) ==
    LET ext0 == _guess_format_from_url(doc)
        size == IF doc.head_ok THEN doc.content_length ELSE 0
        ext  == IF doc.head_ok /\ ext0 = "None"
                THEN _guess_format_from_content_type(doc.content_type)
                ELSE ext0
    IN  IF ext # "None" /\ ext \notin SUPPORTED_FORMATS
        THEN Validation(FALSE, "Unsupported file format", ext, size, NoPageCount,
                        FALSE, FALSE)
        ELSE Validation(TRUE, "None", ext, size, NoPageCount, FALSE, FALSE)

\* validate_url rejecting the URL when the HEAD request raises
validate_url_FailsClosed(doc) ==
    LET ext0 == _guess_format_from_url(doc)
        size == IF doc.head_ok THEN doc.content_length ELSE 0
        ext  == IF doc.head_ok /\ ext0 = "None"
                THEN _guess_format_from_content_type(doc.content_type)
                ELSE ext0
    IN  IF ~doc.head_ok
        THEN Validation(FALSE, "HEAD request failed", ext0, 0, NoPageCount,
                        FALSE, FALSE)
        ELSE IF doc.content_length # 0 /\ size > MAX_FILE_SIZE_BYTES
        THEN Validation(FALSE, "File size exceeds the limit for URL-based files",
                        ext0, size, NoPageCount, FALSE, FALSE)
        ELSE IF ext # "None" /\ ext \notin SUPPORTED_FORMATS
        THEN Validation(FALSE, "Unsupported file format", ext, size, NoPageCount,
                        FALSE, FALSE)
        ELSE Validation(TRUE, "None", ext, size, NoPageCount, FALSE, FALSE)

validate_url(doc) ==
    LET ext0 == _guess_format_from_url(doc)
        size == IF doc.head_ok THEN doc.content_length ELSE 0
        ext  == IF doc.head_ok /\ ext0 = "None"
                THEN _guess_format_from_content_type(doc.content_type)
                ELSE ext0
    IN  IF doc.head_ok /\ doc.content_length # 0 /\ size > MAX_FILE_SIZE_BYTES
        THEN Validation(FALSE, "File size exceeds the limit for URL-based files",
                        ext0, size, NoPageCount, FALSE, FALSE)
        ELSE IF ext # "None" /\ ext \notin SUPPORTED_FORMATS
        THEN Validation(FALSE, "Unsupported file format", ext, size, NoPageCount,
                        FALSE, FALSE)
        ELSE Validation(TRUE, "None", ext, size, NoPageCount, FALSE, FALSE)

\* extension.lower(), for the extensions of this model
Lower(extension) ==
    CASE extension = ".PNG"  -> ".png"
      [] extension = ".HTML" -> ".html"
      [] OTHER -> extension

\* auto_configure_params leaving is_ocr to the caller for images
auto_configure_params_OcrFromCaller(extension, model_version, is_ocr, enable_formula, enable_table) ==
    LET params == [model_version |-> model_version, is_ocr |-> is_ocr,
                   enable_formula |-> enable_formula, enable_table |-> enable_table]
    IN  IF Lower(extension) = ".html"
        THEN [params EXCEPT !.model_version = "MinerU-HTML"]
        ELSE params

\* auto_configure_params treating an unknown extension as an image
auto_configure_params_NoneAsImage(extension, model_version, is_ocr, enable_formula, enable_table) ==
    LET params == [model_version |-> model_version, is_ocr |-> is_ocr,
                   enable_formula |-> enable_formula, enable_table |-> enable_table]
    IN  IF extension = ".html"
        THEN [params EXCEPT !.model_version = "MinerU-HTML"]
        ELSE IF extension \in {".png", ".jpg", ".jpeg", "None"}
        THEN [params EXCEPT !.is_ocr = TRUE]
        ELSE params

auto_configure_params(extension, model_version, is_ocr, enable_formula, enable_table) ==
    LET params == [model_version |-> model_version, is_ocr |-> is_ocr,
                   enable_formula |-> enable_formula, enable_table |-> enable_table]
    IN  IF extension = "None" THEN params
        ELSE IF Lower(extension) = ".html"
        THEN [params EXCEPT !.model_version = "MinerU-HTML"]
        ELSE IF Lower(extension) \in {".png", ".jpg", ".jpeg"}
        THEN [params EXCEPT !.is_ocr = TRUE]
        ELSE params

(* ------------------------------------------------------------------ *)
(* Values exchanged with the external service                          *)
(* ------------------------------------------------------------------ *)
\* identifiers the service hands out (batch_id, task_id)
Handles == {"id1", "id2"}

\* A status payload as the handler reads it.  kind "None" is Python None (no
\* fetch yet), "error" a payload with an "error" key, "empty" a batch payload
\* whose extract_result is missing or empty, "result" one with a state.
\* state, full_zip_url or err_msg "None": the key is absent.
Snap(kind, state, full_zip_url, err_msg) ==
    [kind |-> kind, state |-> state, full_zip_url |-> full_zip_url,
     err_msg |-> err_msg]

NoneStatus == Snap("None", "None", "None", "None")

ResultAnswers ==
    { Snap("result", st, "None", "None") : st \in {"pending", "running", "None"} }
    \cup { Snap("result", "done", z, "None") : z \in {"zip1", "None"} }
    \cup { Snap("result", "failed", "None", e) : e \in {"bad pdf", "None"} }

\* answers of get_batch_result and of get_task_result
BatchAnswers ==
    {Snap("error", "None", "None", "None"), Snap("empty", "None", "None", "None")}
    \cup ResultAnswers

TaskAnswers == {Snap("error", "None", "None", "None")} \cup ResultAnswers

\* what upload_local_file / create_task return: {"error": ...}, a payload
\* with code # 0, or code 0 with an identifier ("None": code 0 and no task_id)
SubmitAnswers(is_url) ==
    { [kind |-> "error", id |-> "None"], [kind |-> "rejected", id |-> "None"] }
    \cup { [kind |-> "ok", id |-> h] : h \in Handles }
    \cup IF is_url THEN { [kind |-> "ok", id |-> "None"] } ELSE {}

\* caller-given output_path with what pathlib reads from it
OutputPaths ==
    { [raw |-> "/out/result.zip", parent |-> "/out", stem |-> "result",
       suffix |-> ".zip"],
      [raw |-> "r", parent |-> ".", stem |-> "r", suffix |-> ""] }

\* str(Path(parent) / name)
PathJoin(parent, name) ==
    IF parent = "." THEN name ELSE parent \o "/" \o name

(* ------------------------------------------------------------------ *)
(* convert_to_markdown: decisions of the handler                       *)
(* ------------------------------------------------------------------ *)
\* the flow taken by the validator's flags alone
FlowOf_ByFlags(is_url, v) ==
    IF v.needs_splitting THEN "split"
    ELSE IF v.use_page_ranges THEN "ranges"
    ELSE "single"

\* which flow the handler takes after a valid validation
FlowOf(is_url, v) ==
    IF is_url THEN "url"
    ELSE IF v.needs_splitting THEN "split"
    ELSE IF v.use_page_ranges THEN "ranges"
    ELSE "single"

MultiFlows == {"split", "ranges"}

\* the page-range flow cutting the file into chunk files as the splitting
\* flow does
UnitsOf_RangesAsChunks(fl, v) ==
    CASE fl \in {"split", "ranges"} ->
           LET cs == split_large_pdf("doc", v.file_size, v.page_count)
           IN  [k \in 1..Len(cs) |->
                  [path |-> cs[k].path, page_ranges |-> "None",
                   label |-> ToString(k)]]
      [] fl = "url" ->
           << [path |-> "http://host/doc", page_ranges |-> "None",
               label |-> "None"] >>
      [] OTHER ->
           << [path |-> "doc" \o v.extension, page_ranges |-> "None",
               label |-> "None"] >>

\* the Submission Units of a flow: the file uploaded, its page_ranges
\* argument and the label the reports name it by
UnitsOf(fl, v) ==
    CASE fl = "split" ->
           LET cs == split_large_pdf("doc", v.file_size, v.page_count)
           IN  [k \in 1..Len(cs) |->
                  [path |-> cs[k].path, page_ranges |-> "None",
                   label |-> ToString(k)]]
      [] fl = "ranges" ->
           LET rs == build_page_ranges(v.page_count)
           IN  [k \in 1..Len(rs) |->
                  [path |-> "doc.pdf", page_ranges |-> rs[k], label |-> rs[k]]]
      [] fl = "url" ->
           << [path |-> "http://host/doc", page_ranges |-> "None",
               label |-> "None"] >>
      [] OTHER ->
           << [path |-> "doc" \o v.extension, page_ranges |-> "None",
               label |-> "None"] >>

\* every unit is downloaded to the caller's output_path itself
UnitOutput_SamePath(fl, output_path, i, unit) == output_path.raw

\* every flow names its output as the splitting flow does
UnitOutput_AlwaysPart(fl, output_path, i, unit) ==
    PathJoin(output_path.parent,
             output_path.stem \o "_part" \o ToString(i + 1) \o output_path.suffix)

\* where unit i (0-based, as enumerate counts) is downloaded to
UnitOutput(fl, output_path, i, unit) ==
    CASE fl = "split" ->
           PathJoin(output_path.parent,
                    output_path.stem \o "_part" \o ToString(i + 1)
                        \o output_path.suffix)
      [] fl = "ranges" ->
           PathJoin(output_path.parent,
                    output_path.stem \o "_pages" \o unit.page_ranges
                        \o output_path.suffix)
      [] OTHER -> output_path.raw

\* while elapsed <= max_wait
LoopContinues_Inclusive(el, max_wait) == el <= max_wait

\* while elapsed < max_wait
LoopContinues(el, max_wait) == el < max_wait

\* an error payload is passed over and the loop goes on
StatusBranch_ErrorContinues(fl, snap) ==
    IF snap.kind = "error" THEN "continue"
    ELSE IF fl # "url" /\ snap.kind = "empty" THEN "continue"
    ELSE IF snap.state = "done" THEN "done"
    ELSE IF snap.state = "failed" THEN "failed"
    ELSE "continue"

\* the `failed` branch does not return: the loop goes on
StatusBranch_FailedContinues(fl, snap) ==
    IF snap.kind = "error" THEN "error"
    ELSE IF fl # "url" /\ snap.kind = "empty" THEN "continue"
    ELSE IF snap.state = "done" THEN "done"
    ELSE "continue"

\* a payload whose state is not one of the known words counts as failed
StatusBranch_AbsentStateFails(fl, snap) ==
    IF snap.kind = "error" THEN "error"
    ELSE IF fl # "url" /\ snap.kind = "empty" THEN "continue"
    ELSE IF snap.state = "done" THEN "done"
    ELSE IF snap.state \in {"pending", "running"} THEN "continue"
    ELSE "failed"

\* the branch taken on a status payload: "error" returns an error report,
\* "continue" goes round the loop, "done" downloads, "failed" returns
StatusBranch(fl, snap) ==
    IF snap.kind = "error" THEN "error"
    ELSE IF fl # "url" /\ snap.kind = "empty" THEN "continue"
    ELSE IF snap.state = "done" THEN "done"
    ELSE IF snap.state = "failed" THEN "failed"
    ELSE "continue"

\* the external message is dropped for the default
ErrMsgOf_Generic(snap) == "Unknown error"

\* file_result.get("err_msg", "Unknown error")
ErrMsgOf(snap) == IF snap.err_msg = "None" THEN "Unknown error" ELSE snap.err_msg

(* ------------------------------------------------------------------ *)
(* Reports (the text returned to the caller)                           *)
(* ------------------------------------------------------------------ *)
\* msg: the head of the message; unit: the chunk number or page range the
\* text names; handle: the Batch ID / Task ID the text gives; has_status and
\* status: the status payload the text dumps; err: the err_msg or download
\* error it quotes; url: the download URL it gives; paths: the paths it lists
\* as saved.  "None" / FALSE / << >>: the text has no such part.
Report(msg, unit, handle, has_status, status, err, url, paths) ==
    [msg |-> msg, unit |-> unit, handle |-> handle, has_status |-> has_status,
     status |-> status, err |-> err, url |-> url, paths |-> paths]

NoReport == Report("None", "None", "None", FALSE, NoneStatus, "None", "None", << >>)

ValidationErrorReport(v) ==
    Report("Validation error", "None", "None", FALSE, NoneStatus, v.error,
           "None", << >>)

\* "File is too large (... MB). Only PDF files >200MB can be automatically split."
TooLargeReport ==
    Report("File is too large", "None", "None", FALSE, NoneStatus, "None",
           "None", << >>)

SplitFailedReport ==
    Report("Failed to split file", "None", "None", FALSE, NoneStatus,
           "exception", "None", << >>)

SubmitFailedReport(fl, unit, ans) ==
    Report(CASE fl = "split"  -> "Failed to upload chunk"
             [] fl = "ranges" -> "Failed to upload page range"
             [] fl = "single" -> "Failed to upload file"
             [] fl = "url"    -> IF ans.kind = "ok" THEN "No task_id returned"
                                 ELSE "Failed to create task",
           unit.label, "None", FALSE, NoneStatus, ans.kind, "None", << >>)

StatusErrorReport(fl, unit, snap) ==
    Report(CASE fl = "split"  -> "Error checking chunk status"
             [] fl = "ranges" -> "Error checking page range status"
             [] OTHER         -> "Error checking status",
           unit.label, "None", TRUE, snap, "None", "None", << >>)

JobFailedReport(fl, unit, snap) ==
    IF fl \in MultiFlows
    THEN Report(IF fl = "split" THEN "Chunk failed" ELSE "Page range failed",
                unit.label, "None", FALSE, NoneStatus, ErrMsgOf(snap), "None", << >>)
    ELSE Report("Task failed", "None", "None", TRUE, snap, ErrMsgOf(snap),
                "None", << >>)

\* a failed download is reported with the text of a failed job
DownloadFailedReport_AsJobFailed(fl, unit, dl_error, zip) ==
    JobFailedReport(fl, unit, Snap("result", "failed", "None", dl_error))

DownloadFailedReport(fl, unit, dl_error, zip) ==
    Report(CASE fl = "split"  -> "Chunk download failed"
             [] fl = "ranges" -> "Page range download failed"
             [] OTHER         -> "Conversion completed but download failed",
           unit.label, "None", FALSE, NoneStatus, dl_error, zip, << >>)

TimeoutReport(fl, unit, h, snap) ==
    IF fl \in MultiFlows
    THEN Report(IF fl = "split" THEN "Timeout waiting for chunk"
                ELSE "Timeout waiting for page range",
                unit.label, h, FALSE, NoneStatus, "None", "None", << >>)
    ELSE Report("Timeout. Task is still processing.", "None", h, TRUE, snap,
                "None", "None", << >>)

CompletedReport(fl, h, out, zip, outputs) ==
    IF fl \in MultiFlows
    THEN Report(IF fl = "split"
                THEN "Conversion completed! File was split into chunks."
                ELSE "Conversion completed! File was split into page ranges.",
                "None", "None", FALSE, NoneStatus, "None", "None", outputs)
    ELSE Report("Conversion completed!", "None", h, FALSE, NoneStatus, "None",
                zip, << out >>)

\* the text of create_parse_task's result: json.dumps(result)
ResultReport ==
    Report("result", "None", "None", FALSE, NoneStatus, "None", "None", << >>)

\* create_parse_task's report of a chunk or page range that was not accepted
CreateFailedReport(fl, unit, ans) ==
    Report(IF fl = "split" THEN "Failed to upload chunk" ELSE "Failed for page range",
           IF fl = "split" THEN unit.path ELSE unit.page_ranges,
           "None", FALSE, NoneStatus, ans.kind, "None", << >>)

\* the payload create_parse_task dumps.  kind "answer": what create_task /
\* upload_local_file returned, as it is; "chunk_count" / "page_range_count":
\* the payload built after the loop, with that key holding `count`
CreateResult(kind, answer, ids, count) ==
    [kind |-> kind, answer |-> answer, batch_ids |-> ids, count |-> count]

NoAnswer == [kind |-> "None", id |-> "None"]

NoResult == CreateResult("None", NoAnswer, << >>, 0)

\* a request sent before any polling: requests.head of validate_url, or the
\* request of create_task / upload_local_file with the arguments given to it
Request(op, unit, prm) ==
    [op |-> op, path |-> unit.path, page_ranges |-> unit.page_ranges,
     params |-> prm]

SubmitOp(fl) == IF fl = "url" THEN "create_task" ELSE "upload_local_file"

(* ------------------------------------------------------------------ *)
(* State of one invocation of a tool                                   *)
(* ------------------------------------------------------------------ *)
VARIABLES
    pc,             \* "idle", "submit", "loop", "fetch", "download",
                    \* "create_submit", "returned"
    args,           \* the caller's arguments and the document they name
    validation,     \* the validator's result
    params,         \* auto_configure_params' result
    flow,           \* "none", "url", "single", "split", "ranges"
    units,          \* chunk_paths / page_ranges_list / the one document
    i,              \* index of the unit in hand (enumerate's i)
    handle,         \* batch_id / task_id of the unit in hand
    elapsed,
    status_result,  \* the last status payload fetched for the unit in hand
    zip_url,
    all_outputs,
    report,         \* the text returned, NoReport until the handler returns
    \* history of the external calls made, per unit (1-based)
    submitted,      \* indices i of the units whose submission was sent
    nFetch,         \* status fetches made for each unit
    seen,           \* "none", or the terminal state a fetch returned
    fetchedAfterTerminal,
    downloads,      \* download_file calls: unit index, url, path, success
    outcome,        \* per unit, the outcomes the handler settled on
    sent,           \* the HEAD probes and submissions made, in order
    \* create_parse_task
    batch_ids,      \* the batch_ids collected so far
    result,         \* the payload returned as JSON, NoResult until then
    \* several invocations side by side
    locals,         \* per invocation, the local variables of its handler
    answers,        \* per invocation, the external answers it was given
    \* a function of the decomposer called on its own
    fn_name,        \* "" until the function is called, then its name
    fn_input,
    fn_result

vars == << pc, args, validation, params, flow, units, i, handle, elapsed,
           status_result, zip_url, all_outputs, report, submitted, nFetch,
           seen, fetchedAfterTerminal, downloads, outcome, sent,
           batch_ids, result, locals, answers, fn_name, fn_input, fn_result >>

fnVars == << fn_name, fn_input, fn_result >>

inputVars == << args, validation, params, flow, units >>

createVars == << batch_ids, result >>

procVars == << locals, answers >>

NoArgs ==
    [doc |-> LocalDoc(FALSE, ".pdf", 0, NoPageCount),
     output_path |-> CHOOSE o \in OutputPaths : o.parent = ".",
     model_version |-> "vlm", max_wait |-> 0, poll_interval |-> 0,
     name |-> "", is_ocr |-> FALSE, enable_formula |-> TRUE,
     enable_table |-> TRUE]

NoValidation == Validation(FALSE, "None", "None", 0, NoPageCount, FALSE, FALSE)

NoParams == auto_configure_params("None", "vlm", FALSE, TRUE, TRUE)

HeadRequest ==
    Request("head", [path |-> "http://host/doc", page_ranges |-> "None"], NoParams)

HandlerIdle ==
    /\ pc = "idle"
    /\ args = NoArgs
    /\ validation = NoValidation
    /\ params = NoParams
    /\ flow = "none"
    /\ units = << >>
    /\ i = 0
    /\ handle = "None"
    /\ elapsed = 0
    /\ status_result = NoneStatus
    /\ zip_url = "None"
    /\ all_outputs = << >>
    /\ report = NoReport
    /\ submitted = << >>
    /\ nFetch = << >>
    /\ seen = << >>
    /\ fetchedAfterTerminal = FALSE
    /\ downloads = << >>
    /\ outcome = << >>
    /\ sent = << >>
    /\ batch_ids = << >>
    /\ result = NoResult

HandlerInit ==
    /\ HandlerIdle
    /\ locals = << >>
    /\ answers = << >>

Init ==
    /\ HandlerInit
    /\ fn_name = ""
    /\ fn_input = 0
    /\ fn_result = << >>

\* the handler returns `rep`, having settled on outcome `kind` for the unit in
\* hand ("" when the return is about no unit)
Return(rep, kind) ==
    /\ pc' = "returned"
    /\ report' = rep
    /\ outcome' = IF kind = "" THEN outcome
                  ELSE [outcome EXCEPT ![i + 1] = Append(@, kind)]

\* validation, auto-configuration, decomposition: the handler up to its first
\* submission
Invoke ==
    /\ pc = "idle"
    /\ \E doc \in Documents, out \in OutputPaths,
          mw \in (0 - 1)..MaxWait, pi \in (0 - 1)..MaxPoll,
          split_ok \in BOOLEAN :
          LET v   == IF doc.is_url THEN validate_url(doc)
                     ELSE validate_local_file(doc)
              prm == auto_configure_params(v.extension, "vlm", FALSE, TRUE, TRUE)
              fl  == IF v.valid THEN FlowOf(doc.is_url, v) ELSE "none"
              \* split_large_pdf raises without PyPDF2 or on an unreadable
              \* PDF (the cases in which _get_page_count returned None), and
              \* may raise while writing a chunk
              splits == fl = "split" /\ v.extension = ".pdf"
                        /\ split_ok /\ v.page_count # NoPageCount
              us  == IF fl = "none" \/ (fl = "split" /\ ~splits) THEN << >>
                     ELSE UnitsOf(fl, v)
          IN  /\ (fl # "split" => split_ok)
              /\ args' = [doc |-> doc, output_path |-> out,
                          model_version |-> "vlm", max_wait |-> mw,
                          poll_interval |-> pi, name |-> "convert_to_markdown",
                          is_ocr |-> FALSE, enable_formula |-> TRUE,
                          enable_table |-> TRUE]
              /\ sent' = IF doc.is_url THEN << HeadRequest >> ELSE << >>
              /\ validation' = v
              /\ params' = prm
              /\ flow' = fl
              /\ units' = us
              /\ nFetch' = [k \in 1..Len(us) |-> 0]
              /\ seen' = [k \in 1..Len(us) |-> "none"]
              /\ outcome' = [k \in 1..Len(us) |-> << >>]
              /\ IF ~v.valid
                 THEN pc' = "returned" /\ report' = ValidationErrorReport(v)
                 ELSE IF fl = "split" /\ v.extension # ".pdf"
                 THEN pc' = "returned" /\ report' = TooLargeReport
                 ELSE IF fl = "split" /\ ~splits
                 THEN pc' = "returned" /\ report' = SplitFailedReport
                 ELSE IF us = << >>
                 THEN /\ pc' = "returned"
                      /\ report' = CompletedReport(fl, "None", "None", "None", << >>)
                 ELSE pc' = "submit" /\ report' = NoReport
    /\ UNCHANGED << i, handle, elapsed, status_result, zip_url, all_outputs,
                    submitted, fetchedAfterTerminal, downloads, fnVars,
                    createVars, procVars >>

\* the status is fetched right after the submission, before any sleep
Submit_FetchFirst ==
    /\ pc = "submit"
    /\ \E ans \in SubmitAnswers(flow = "url") :
          /\ submitted' = Append(submitted, i)
          /\ sent' = Append(sent, Request(SubmitOp(flow), units[i + 1], params))
          /\ IF ans.kind # "ok" \/ ans.id = "None"
             THEN /\ Return(SubmitFailedReport(flow, units[i + 1], ans),
                            "submit-error")
                  /\ UNCHANGED << handle, elapsed, status_result >>
             ELSE /\ handle' = ans.id
                  /\ elapsed' = 0
                  /\ status_result' = NoneStatus
                  /\ pc' = "fetch"
                  /\ UNCHANGED << report, outcome >>
    /\ UNCHANGED << inputVars, i, zip_url, all_outputs, nFetch, seen,
                    fetchedAfterTerminal, downloads, fnVars, createVars, procVars >>

\* elapsed is set to 0 once, before the first unit, and runs on over the units
Submit_NoReset ==
    /\ pc = "submit"
    /\ \E ans \in SubmitAnswers(flow = "url") :
          /\ submitted' = Append(submitted, i)
          /\ sent' = Append(sent, Request(SubmitOp(flow), units[i + 1], params))
          /\ IF ans.kind # "ok" \/ ans.id = "None"
             THEN /\ Return(SubmitFailedReport(flow, units[i + 1], ans),
                            "submit-error")
                  /\ UNCHANGED << handle, elapsed, status_result >>
             ELSE /\ handle' = ans.id
                  /\ elapsed' = elapsed
                  /\ status_result' = NoneStatus
                  /\ pc' = "loop"
                  /\ UNCHANGED << report, outcome >>
    /\ UNCHANGED << inputVars, i, zip_url, all_outputs, nFetch, seen,
                    fetchedAfterTerminal, downloads, fnVars, createVars, procVars >>

\* upload_local_file / create_task for the unit in hand, then the reset of
\* the loop's variables
Submit ==
    /\ pc = "submit"
    /\ \E ans \in SubmitAnswers(flow = "url") :
          /\ submitted' = Append(submitted, i)
          /\ sent' = Append(sent, Request(SubmitOp(flow), units[i + 1], params))
          /\ IF ans.kind # "ok" \/ ans.id = "None"
             THEN /\ Return(SubmitFailedReport(flow, units[i + 1], ans),
                            "submit-error")
                  /\ UNCHANGED << handle, elapsed, status_result >>
             ELSE /\ handle' = ans.id
                  /\ elapsed' = 0
                  /\ status_result' = NoneStatus
                  /\ pc' = "loop"
                  /\ UNCHANGED << report, outcome >>
    /\ UNCHANGED << inputVars, i, zip_url, all_outputs, nFetch, seen,
                    fetchedAfterTerminal, downloads, fnVars, createVars, procVars >>

\* the loop test holds: await asyncio.sleep(poll_interval); elapsed += poll_interval
Sleep ==
    /\ pc = "loop"
    /\ LoopContinues(elapsed, args.max_wait)
    /\ nFetch[i + 1] < FetchCap
    /\ elapsed' = elapsed + args.poll_interval
    /\ pc' = "fetch"
    /\ UNCHANGED << inputVars, i, handle, status_result, zip_url, all_outputs,
                    report, submitted, nFetch, seen, fetchedAfterTerminal,
                    downloads, outcome, fnVars, createVars, sent, procVars >>

\* on a timeout the multi-unit loops go on to the next unit
Timeout_NextUnit ==
    /\ pc = "loop"
    /\ ~LoopContinues(elapsed, args.max_wait)
    /\ IF flow \in MultiFlows /\ i + 1 < Len(units)
       THEN /\ i' = i + 1
            /\ pc' = "submit"
            /\ outcome' = [outcome EXCEPT ![i + 1] = Append(@, "timed-out")]
            /\ UNCHANGED report
       ELSE /\ Return(TimeoutReport(flow, units[i + 1], handle, status_result),
                      "timed-out")
            /\ UNCHANGED i
    /\ UNCHANGED << inputVars, handle, elapsed, status_result, zip_url,
                    all_outputs, submitted, nFetch, seen, fetchedAfterTerminal,
                    downloads, fnVars, createVars, sent, procVars >>

\* the loop test fails: the code after the while loop
Timeout ==
    /\ pc = "loop"
    /\ ~LoopContinues(elapsed, args.max_wait)
    /\ Return(TimeoutReport(flow, units[i + 1], handle, status_result), "timed-out")
    /\ UNCHANGED << inputVars, i, handle, elapsed, status_result, zip_url,
                    all_outputs, submitted, nFetch, seen, fetchedAfterTerminal,
                    downloads, fnVars, createVars, sent, procVars >>

\* get_batch_result / get_task_result and the branch on its answer
Fetch ==
    /\ pc = "fetch"
    /\ \E ans \in (IF flow = "url" THEN TaskAnswers ELSE BatchAnswers) :
          LET br == StatusBranch(flow, ans)
          IN  /\ status_result' = ans
              /\ nFetch' = [nFetch EXCEPT ![i + 1] = @ + 1]
              /\ fetchedAfterTerminal' =
                     (fetchedAfterTerminal \/ seen[i + 1] # "none")
              /\ seen' = IF ans.kind = "result" /\ ans.state \in {"done", "failed"}
                            /\ seen[i + 1] = "none"
                         THEN [seen EXCEPT ![i + 1] = ans.state]
                         ELSE seen
              /\ CASE br = "error" ->
                        /\ Return(StatusErrorReport(flow, units[i + 1], ans),
                                  "poll-error")
                        /\ UNCHANGED zip_url
                   [] br = "failed" ->
                        /\ Return(JobFailedReport(flow, units[i + 1], ans),
                                  "job-failed")
                        /\ UNCHANGED zip_url
                   [] br = "done" ->
                        /\ zip_url' = ans.full_zip_url
                        /\ pc' = "download"
                        /\ UNCHANGED << report, outcome >>
                   [] OTHER ->
                        /\ pc' = "loop"
                        /\ UNCHANGED << zip_url, report, outcome >>
    /\ UNCHANGED << inputVars, i, handle, elapsed, all_outputs, submitted,
                    downloads, fnVars, createVars, sent, procVars >>

\* the answer of download_file is not looked at
Download_IgnoresError ==
    /\ pc = "download"
    /\ \E ok \in BOOLEAN :
          LET out  == UnitOutput(flow, args.output_path, i, units[i + 1])
              outs == Append(all_outputs, out)
          IN  \* curl cannot be run on a missing URL: subprocess.run raises
              /\ (zip_url = "None" => ~ok)
              /\ downloads' = Append(downloads,
                                     [unit |-> i, url |-> zip_url, path |-> out,
                                      ok |-> ok])
              /\ IF FALSE
                 THEN /\ Return(DownloadFailedReport(flow, units[i + 1],
                                                     "curl failed", zip_url),
                                "download-failed")
                      /\ UNCHANGED << i, all_outputs >>
                 ELSE IF flow \in MultiFlows /\ i + 1 < Len(units)
                 THEN /\ all_outputs' = outs
                      /\ outcome' = [outcome EXCEPT ![i + 1] = Append(@, "success")]
                      /\ i' = i + 1
                      /\ pc' = "submit"
                      /\ UNCHANGED report
                 ELSE /\ all_outputs' = IF flow \in MultiFlows THEN outs
                                        ELSE all_outputs
                      /\ Return(CompletedReport(flow, handle, out, zip_url, outs),
                                "success")
                      /\ UNCHANGED i
    /\ UNCHANGED << inputVars, handle, elapsed, status_result, zip_url,
                    submitted, nFetch, seen, fetchedAfterTerminal, fnVars, createVars, sent, procVars >>

\* download_file(zip_url, <the unit's output>) and what follows it
Download ==
    /\ pc = "download"
    /\ \E ok \in BOOLEAN :
          LET out  == UnitOutput(flow, args.output_path, i, units[i + 1])
              outs == Append(all_outputs, out)
          IN  \* curl cannot be run on a missing URL: subprocess.run raises
              /\ (zip_url = "None" => ~ok)
              /\ downloads' = Append(downloads,
                                     [unit |-> i, url |-> zip_url, path |-> out,
                                      ok |-> ok])
              /\ IF ~ok
                 THEN /\ Return(DownloadFailedReport(flow, units[i + 1],
                                                     "curl failed", zip_url),
                                "download-failed")
                      /\ UNCHANGED << i, all_outputs >>
                 ELSE IF flow \in MultiFlows /\ i + 1 < Len(units)
                 THEN /\ all_outputs' = outs
                      /\ outcome' = [outcome EXCEPT ![i + 1] = Append(@, "success")]
                      /\ i' = i + 1
                      /\ pc' = "submit"
                      /\ UNCHANGED report
                 ELSE /\ all_outputs' = IF flow \in MultiFlows THEN outs
                                        ELSE all_outputs
                      /\ Return(CompletedReport(flow, handle, out, zip_url, outs),
                                "success")
                      /\ UNCHANGED i
    /\ UNCHANGED << inputVars, handle, elapsed, status_result, zip_url,
                    submitted, nFetch, seen, fetchedAfterTerminal, fnVars, createVars, sent, procVars >>

\* create_parse_task up to its first submission
InvokeCreate ==
    /\ pc = "idle"
    /\ \E doc \in Documents, mv \in {"vlm", "pipeline"}, ocr \in BOOLEAN,
          ef \in BOOLEAN, et \in BOOLEAN, split_ok \in BOOLEAN :
          LET v   == IF doc.is_url THEN validate_url(doc)
                     ELSE validate_local_file(doc)
              prm == auto_configure_params(v.extension, mv, ocr, ef, et)
              fl  == IF v.valid THEN FlowOf(doc.is_url, v) ELSE "none"
              splits == fl = "split" /\ v.extension = ".pdf"
                        /\ split_ok /\ v.page_count # NoPageCount
              us  == IF fl = "none" \/ (fl = "split" /\ ~splits) THEN << >>
                     ELSE UnitsOf(fl, v)
          IN  /\ (fl # "split" => split_ok)
              /\ args' = [NoArgs EXCEPT !.doc = doc, !.name = "create_parse_task",
                                        !.model_version = mv, !.is_ocr = ocr,
                                        !.enable_formula = ef,
                                        !.enable_table = et]
              /\ sent' = IF doc.is_url THEN << HeadRequest >> ELSE << >>
              /\ validation' = v
              /\ params' = IF v.valid THEN prm ELSE NoParams
              /\ flow' = fl
              /\ units' = us
              /\ nFetch' = [k \in 1..Len(us) |-> 0]
              /\ seen' = [k \in 1..Len(us) |-> "none"]
              /\ outcome' = [k \in 1..Len(us) |-> << >>]
              /\ IF ~v.valid
                 THEN /\ pc' = "returned"
                      /\ report' = ValidationErrorReport(v)
                      /\ UNCHANGED result
                 ELSE IF fl = "split" /\ v.extension # ".pdf"
                 THEN /\ pc' = "returned"
                      /\ report' = TooLargeReport
                      /\ UNCHANGED result
                 ELSE IF fl = "split" /\ ~splits
                 THEN /\ pc' = "returned"
                      /\ report' = SplitFailedReport
                      /\ UNCHANGED result
                 ELSE IF us = << >>
                 THEN /\ pc' = "returned"
                      /\ report' = ResultReport
                      /\ result' = CreateResult("chunk_count", NoAnswer, << >>, 0)
                 ELSE /\ pc' = "create_submit"
                      /\ report' = NoReport
                      /\ UNCHANGED result
    /\ UNCHANGED << i, handle, elapsed, status_result, zip_url, all_outputs,
                    submitted, fetchedAfterTerminal, downloads, batch_ids,
                    fnVars, procVars >>

\* create_parse_task going on to the polling loop after its submission
CreateSubmit_ThenPolls ==
    /\ pc = "create_submit"
    /\ \E ans \in SubmitAnswers(flow = "url") :
          /\ submitted' = Append(submitted, i)
          /\ sent' = Append(sent, Request(SubmitOp(flow), units[i + 1], params))
          /\ IF flow \notin MultiFlows
             THEN /\ pc' = "loop"
                  /\ report' = ResultReport
                  /\ result' = CreateResult("answer", ans, << >>, 0)
                  /\ UNCHANGED << i, batch_ids >>
             ELSE IF ans.kind # "ok"
             THEN /\ pc' = "returned"
                  /\ report' = CreateFailedReport(flow, units[i + 1], ans)
                  /\ UNCHANGED << i, batch_ids, result >>
             ELSE IF i + 1 < Len(units)
             THEN /\ batch_ids' = Append(batch_ids, ans.id)
                  /\ i' = i + 1
                  /\ UNCHANGED << pc, report, result >>
             ELSE /\ batch_ids' = Append(batch_ids, ans.id)
                  /\ pc' = "returned"
                  /\ report' = ResultReport
                  /\ result' = CreateResult(IF flow = "split" THEN "chunk_count"
                                            ELSE "page_range_count",
                                            NoAnswer, Append(batch_ids, ans.id),
                                            Len(units))
                  /\ UNCHANGED i
    /\ UNCHANGED << inputVars, handle, elapsed, status_result, zip_url,
                    all_outputs, nFetch, seen, fetchedAfterTerminal, downloads,
                    outcome, fnVars, procVars >>

\* when a unit is not accepted, the identifiers obtained so far are returned
\* as the result
CreateSubmit_PartialList ==
    /\ pc = "create_submit"
    /\ \E ans \in SubmitAnswers(flow = "url") :
          /\ submitted' = Append(submitted, i)
          /\ sent' = Append(sent, Request(SubmitOp(flow), units[i + 1], params))
          /\ IF flow \notin MultiFlows
             THEN /\ pc' = "returned"
                  /\ report' = ResultReport
                  /\ result' = CreateResult("answer", ans, << >>, 0)
                  /\ UNCHANGED << i, batch_ids >>
             ELSE IF ans.kind # "ok"
             THEN /\ pc' = "returned"
                  /\ report' = ResultReport
                  /\ result' = CreateResult(IF flow = "split" THEN "chunk_count"
                                            ELSE "page_range_count",
                                            NoAnswer, batch_ids, Len(batch_ids))
                  /\ UNCHANGED << i, batch_ids >>
             ELSE IF i + 1 < Len(units)
             THEN /\ batch_ids' = Append(batch_ids, ans.id)
                  /\ i' = i + 1
                  /\ UNCHANGED << pc, report, result >>
             ELSE /\ batch_ids' = Append(batch_ids, ans.id)
                  /\ pc' = "returned"
                  /\ report' = ResultReport
                  /\ result' = CreateResult(IF flow = "split" THEN "chunk_count"
                                            ELSE "page_range_count",
                                            NoAnswer, Append(batch_ids, ans.id),
                                            Len(units))
                  /\ UNCHANGED i
    /\ UNCHANGED << inputVars, handle, elapsed, status_result, zip_url,
                    all_outputs, nFetch, seen, fetchedAfterTerminal, downloads,
                    outcome, fnVars, procVars >>

\* create_parse_task: create_task / upload_local_file for the unit in hand
\* and what follows it
CreateSubmit ==
    /\ pc = "create_submit"
    /\ \E ans \in SubmitAnswers(flow = "url") :
          /\ submitted' = Append(submitted, i)
          /\ sent' = Append(sent, Request(SubmitOp(flow), units[i + 1], params))
          /\ IF flow \notin MultiFlows
             THEN /\ pc' = "returned"
                  /\ report' = ResultReport
                  /\ result' = CreateResult("answer", ans, << >>, 0)
                  /\ UNCHANGED << i, batch_ids >>
             ELSE IF ans.kind # "ok"
             THEN /\ pc' = "returned"
                  /\ report' = CreateFailedReport(flow, units[i + 1], ans)
                  /\ UNCHANGED << i, batch_ids, result >>
             ELSE IF i + 1 < Len(units)
             THEN /\ batch_ids' = Append(batch_ids, ans.id)
                  /\ i' = i + 1
                  /\ UNCHANGED << pc, report, result >>
             ELSE /\ batch_ids' = Append(batch_ids, ans.id)
                  /\ pc' = "returned"
                  /\ report' = ResultReport
                  /\ result' = CreateResult(IF flow = "split" THEN "chunk_count"
                                            ELSE "page_range_count",
                                            NoAnswer, Append(batch_ids, ans.id),
                                            Len(units))
                  /\ UNCHANGED i
    /\ UNCHANGED << inputVars, handle, elapsed, status_result, zip_url,
                    all_outputs, nFetch, seen, fetchedAfterTerminal, downloads,
                    outcome, fnVars, procVars >>

Next ==
    \/ Invoke \/ Submit \/ Sleep \/ Timeout \/ Fetch \/ Download
    \/ InvokeCreate \/ CreateSubmit

Spec == Init /\ [][Next]_vars

(* ------------------------------------------------------------------ *)
(* build_page_ranges called on its own, for every page count           *)
(* ------------------------------------------------------------------ *)
InitRanges ==
    /\ HandlerInit
    /\ fn_name = ""
    /\ fn_input \in 0..MaxTotalPages
    /\ fn_result = << >>

CallBuildPageRanges ==
    /\ fn_name = ""
    /\ fn_name' = "build_page_ranges"
    /\ fn_result' = [ranges  |-> PageRangeLoop(0, fn_input),
                     strings |-> build_page_ranges(fn_input)]
    /\ UNCHANGED << pc, inputVars, i, handle, elapsed, status_result, zip_url,
                    all_outputs, report, submitted, nFetch, seen,
                    fetchedAfterTerminal, downloads, outcome, createVars, sent,
                    fn_input, procVars >>

NextRanges == CallBuildPageRanges

SpecRanges == InitRanges /\ [][NextRanges]_vars

(* ------------------------------------------------------------------ *)
(* Properties                                                          *)
(* ------------------------------------------------------------------ *)
Range(seq) == { seq[k] : k \in 1..Len(seq) }

Last(seq) == seq[Len(seq)]

TimeoutMsgs ==
    {"Timeout. Task is still processing.", "Timeout waiting for chunk",
     "Timeout waiting for page range"}

JobFailedMsgs == {"Task failed", "Chunk failed", "Page range failed"}

DownloadFailedMsgs ==
    {"Conversion completed but download failed", "Chunk download failed",
     "Page range download failed"}

CompletedMsgs ==
    {"Conversion completed!", "Conversion completed! File was split into chunks.",
     "Conversion completed! File was split into page ranges."}

PollOutcomes ==
    {"success", "download-failed", "job-failed", "poll-error", "timed-out"}

\* the invocation is one of convert_to_markdown
Converting == args.name = "convert_to_markdown"

\* unit k (1-based) was handed to the service
WasSubmitted(k) == (k - 1) \in Range(submitted)

\* C1: once a status fetch of a unit has returned `done` or `failed`, no
\* further status fetch is made for that unit, and the unit ends in exactly
\* one terminal outcome: job-failed after `failed`, success or
\* download-failed after `done`, and one of the five outcomes for every unit
\* that got a handle by the time the handler returns.
C1_OneTerminalOutcome ==
    /\ ~fetchedAfterTerminal
    /\ \A k \in 1..Len(units) :
          /\ Len(outcome[k]) <= 1
          /\ seen[k] = "failed" => outcome[k] = << "job-failed" >>
          /\ seen[k] = "done" =>
                IF pc = "download" /\ k = i + 1
                THEN outcome[k] = << >>
                ELSE /\ Len(outcome[k]) = 1
                     /\ outcome[k][1] \in {"success", "download-failed"}
          /\ (Converting /\ pc = "returned" /\ WasSubmitted(k)) =>
                /\ Len(outcome[k]) = 1
                /\ outcome[k][1] \in PollOutcomes \cup {"submit-error"}
                /\ nFetch[k] > 0 => outcome[k][1] \in PollOutcomes

C1_Witness ==
    /\ pc = "returned"
    /\ flow = "split"
    /\ Len(units) >= 2
    /\ seen[1] = "done"
    /\ seen[2] = "failed"
    /\ nFetch[2] >= 2

\* C2: in a multi-unit conversion, when a unit ends in a failure or a timeout,
\* every later unit is still submitted and reaches its own outcome.
C2_FailureDoesNotAbortSiblings ==
    (pc = "returned" /\ flow \in MultiFlows) =>
        \A k \in 1..Len(units) :
            (outcome[k] # << >> /\ outcome[k][1] # "success") =>
                \A j \in (k + 1)..Len(units) :
                    WasSubmitted(j) /\ Len(outcome[j]) = 1

\* C3: in a multi-unit conversion, when the units before unit k succeeded and
\* unit k fails, the report lists the artifacts of the units before k and
\* names unit k with the reason of its failure.
C3_ReportKeepsSiblingArtifacts ==
    (pc = "returned" /\ flow \in MultiFlows) =>
        \A k \in 1..Len(units) :
            (/\ outcome[k] # << >>
             /\ outcome[k][1] \in {"job-failed", "download-failed", "submit-error"}
             /\ \A j \in 1..(k - 1) : outcome[j] = << "success" >>) =>
                /\ \A j \in 1..(k - 1) : all_outputs[j] \in Range(report.paths)
                /\ report.unit = units[k].label
                /\ report.err # "None"

\* C4: in every flow, the report of a unit whose budget ran out is worded as
\* a timeout and carries the unit's Job Handle and the last polled status.
C4_TimeoutCarriesHandleAndStatus ==
    (pc = "returned" /\ units # << >> /\ outcome[i + 1] = << "timed-out" >>) =>
        /\ report.msg \in TimeoutMsgs
        /\ report.handle = handle
        /\ handle \in Handles
        /\ nFetch[i + 1] > 0 =>
              report.has_status /\ report.status = status_result

\* C5: for every max_wait_seconds and poll_interval, 0 and negative included,
\* a unit's loop makes a bounded number of status fetches: with whole-second
\* arguments never more than max(0, max_wait_seconds).
C5_BoundedPolling ==
    \A k \in 1..Len(units) : nFetch[k] <= Max(0, args.max_wait)

\* C6: a single undecomposed unit (local or URL) whose answers end in `done`
\* is downloaded exactly once, to the caller's output_path, from the
\* full_zip_url of the `done` payload; when the download succeeds the report
\* is the completion report, naming that path.
C6_SingleUnitDone ==
    flow \in {"single", "url"} =>
        /\ Len(downloads) <= 1
        /\ seen[1] = "done" =>
              /\ status_result.state = "done"
              /\ IF pc = "download"
                 THEN downloads = << >> /\ zip_url = status_result.full_zip_url
                 ELSE /\ pc = "returned"
                      /\ Len(downloads) = 1
                      /\ downloads[1].url = status_result.full_zip_url
                      /\ downloads[1].path = args.output_path.raw
                      /\ downloads[1].ok =>
                            /\ report.msg = "Conversion completed!"
                            /\ report.paths = << args.output_path.raw >>
                            /\ report.url = status_result.full_zip_url
                            /\ outcome[1] = << "success" >>
        /\ seen[1] # "done" => downloads = << >>

C6_Witness ==
    /\ pc = "returned"
    /\ flow = "url"
    /\ nFetch[1] = 3
    /\ seen[1] = "done"
    /\ args.output_path.raw = "/out/result.zip"
    /\ report.msg = "Conversion completed!"

\* C7: in every flow, a unit whose status fetch reported `failed` is never
\* downloaded, and the report is the job-failure report quoting the external
\* err_msg as the payload gave it.
C7_FailedNoDownload ==
    \A k \in 1..Len(units) :
        seen[k] = "failed" =>
            /\ \A n \in 1..Len(downloads) : downloads[n].unit # k - 1
            /\ pc = "returned"
            /\ k = i + 1
            /\ report.msg \in JobFailedMsgs
            /\ status_result.err_msg # "None" => report.err = status_result.err_msg

C7_Witness ==
    /\ pc = "returned"
    /\ flow = "ranges"
    /\ i = 1
    /\ seen[2] = "failed"
    /\ status_result.err_msg = "bad pdf"
    /\ report.err = "bad pdf"

C9_UnitsInOrder ==
    (Converting /\ flow \in MultiFlows) =>
        /\ submitted = [k \in 1..Len(submitted) |-> k - 1]
        /\ \A k \in 1..Len(units) :
              WasSubmitted(k) =>
                  \A j \in 1..(k - 1) :
                      /\ seen[j] = "done"
                      /\ outcome[j] = << "success" >>
                      /\ \E n \in 1..Len(downloads) :
                            downloads[n].unit = j - 1 /\ downloads[n].ok
        /\ (pc = "returned" /\ report.msg \in CompletedMsgs) =>
              /\ Len(submitted) = Len(units)
              /\ report.paths =
                     [k \in 1..Len(units) |->
                        UnitOutput(flow, args.output_path, k - 1, units[k])]
              /\ \A k \in 1..Len(units) :
                    downloads[k].path = report.paths[k]

C9_Witness ==
    /\ pc = "returned"
    /\ flow = "ranges"
    /\ Len(units) = 3
    /\ report.msg \in CompletedMsgs
    /\ report.paths = << "/out/result_pages0-599.zip",
                         "/out/result_pages600-1199.zip",
                         "/out/result_pages1200-1200.zip" >>

\* C10: for every page count N >= 0, build_page_ranges returns ranges that
\* cover each page of 0..N-1 exactly once, ascending and contiguous from 0,
\* each at most MAX_PAGES wide, the last ending at N-1; 650 pages give
\* "0-599" and "600-649".
C10_PageRangesCover ==
    fn_name = "build_page_ranges" =>
        LET N  == fn_input
            rs == fn_result.ranges
        IN  /\ \A p \in 0..(N - 1) :
                  Cardinality({ k \in 1..Len(rs) :
                                  rs[k].start <= p /\ p <= rs[k].end }) = 1
            /\ \A k \in 1..Len(rs) :
                  /\ rs[k].start <= rs[k].end
                  /\ rs[k].end - rs[k].start + 1 <= MAX_PAGES
                  /\ rs[k].start = (IF k = 1 THEN 0 ELSE rs[k - 1].end + 1)
            /\ (N = 0) = (rs = << >>)
            /\ rs # << >> => Last(rs).end = N - 1
            /\ Len(fn_result.strings) = Len(rs)
            /\ N = 650 => fn_result.strings = << "0-599", "600-649" >>

C10_Witness ==
    /\ fn_name = "build_page_ranges"
    /\ fn_input = 650
    /\ Len(fn_result.ranges) = 2
    /\ fn_result.ranges[2] = [start |-> 600, end |-> 649]

(* ------------------------------------------------------------------ *)
(* split_large_pdf called on its own                                   *)
(* ------------------------------------------------------------------ *)
\* bytes of a page that is not the heavy one, when one page is heavy
LightPageBytes == 1024

\* file sizes around the multiples of the target chunk size
SplitSizes ==
    { sz \in { k * SPLIT_CHUNK_SIZE_MB * MiB + d :
                 k \in 0..MaxSizeChunks, d \in {0 - 1, 0, 1, 70 * MiB} } : sz > 0 }

\* a PDF: its size, its page count and how the bytes lie on its pages:
\* evenly, or LightPageBytes on every page but the first, which holds the rest
SplitInputs ==
    { [file_size |-> sz, total_pages |-> n, layout |-> h] :
        sz \in SplitSizes, n \in 0..MaxTotalPages, h \in {"even", "first_heavy"} }

\* the size of the chunk file PdfWriter writes from pages
\* start_page..end_page-1, as the sum of the sizes of these pages
ChunkBytes(c, inp) ==
    LET cnt == c.end_page - c.start_page
        N   == inp.total_pages
        S   == inp.file_size
    IN  IF N = 0 \/ cnt = N THEN S
        ELSE IF inp.layout = "even"
        THEN cnt * (S \div N) + (IF c.end_page = N THEN S % N ELSE 0)
        ELSE cnt * LightPageBytes
             + (IF c.start_page = 0
                THEN S - N * LightPageBytes ELSE 0)

InitSplit ==
    /\ HandlerInit
    /\ fn_name = ""
    /\ fn_input \in { inp \in SplitInputs :
                        inp.layout = "first_heavy" =>
                            inp.file_size > inp.total_pages * LightPageBytes }
    /\ fn_result = << >>

CallSplitLargePdf ==
    /\ fn_name = ""
    /\ fn_name' = "split_large_pdf"
    /\ fn_result' =
           LET cs == split_large_pdf("doc", fn_input.file_size, fn_input.total_pages)
           IN  [chunk_count |-> chunk_count(fn_input.file_size, fn_input.total_pages),
                chunks |-> cs,
                bytes  |-> [k \in 1..Len(cs) |-> ChunkBytes(cs[k], fn_input)]]
    /\ UNCHANGED << pc, inputVars, i, handle, elapsed, status_result, zip_url,
                    all_outputs, report, submitted, nFetch, seen,
                    fetchedAfterTerminal, downloads, outcome, createVars, sent,
                    fn_input, procVars >>

NextSplit == CallSplitLargePdf

SpecSplit == InitSplit /\ [][NextSplit]_vars

CeilDiv(a, b) == (a + b - 1) \div b

\* C11: for every file size S and page count N the chunk count computed by
\* split_large_pdf is max(ceil(S/T), ceil(N/C)), T = 180 MiB and C = 600,
\* also when S is an exact multiple of T.
C11_ChunkCountIsMaxOfCeilings ==
    fn_name = "split_large_pdf" =>
        fn_result.chunk_count =
            Max(CeilDiv(fn_input.file_size, SPLIT_CHUNK_SIZE_MB * MiB),
                CeilDiv(fn_input.total_pages, MAX_PAGES))

\* C12: when the computed chunk count is at least 2, the chunks hold
\* contiguous page ranges in document order, from page 0 to page N-1, whose
\* page counts sum to N, none longer than ceil(N / chunk_count); 250 MiB and
\* 620 pages give pages 0..309 and 310..619.
C12_ChunksPartitionPages ==
    (fn_name = "split_large_pdf" /\ fn_result.chunk_count >= 2) =>
        LET cs == fn_result.chunks
            N  == fn_input.total_pages
        IN  /\ Len(cs) <= fn_result.chunk_count
            /\ (N = 0) = (cs = << >>)
            /\ \A k \in 1..Len(cs) :
                  /\ cs[k].start_page = (IF k = 1 THEN 0 ELSE cs[k - 1].end_page)
                  /\ cs[k].start_page < cs[k].end_page
                  /\ cs[k].end_page - cs[k].start_page
                         <= CeilDiv(N, fn_result.chunk_count)
            /\ cs # << >> => cs[Len(cs)].end_page = N
            /\ (fn_input.file_size = 250 * MiB /\ N = 620) =>
                  /\ Len(cs) = 2
                  /\ cs[1].start_page = 0 /\ cs[1].end_page = 310
                  /\ cs[2].start_page = 310 /\ cs[2].end_page = 620

C12_Witness ==
    /\ fn_name = "split_large_pdf"
    /\ fn_input.file_size = 250 * MiB
    /\ fn_input.total_pages = 620
    /\ fn_result.chunk_count = 2
    /\ Len(fn_result.chunks) = 2

\* C13: every chunk written by split_large_pdf has at most MAX_PAGES pages
\* and, as the sum of the sizes of its pages, at most MAX_FILE_SIZE_BYTES
\* bytes, however the bytes lie on the pages.
C13_ChunksWithinBothCeilings ==
    fn_name = "split_large_pdf" =>
        \A k \in 1..Len(fn_result.chunks) :
            /\ fn_result.chunks[k].end_page - fn_result.chunks[k].start_page
                   <= MAX_PAGES
            /\ fn_result.bytes[k] <= MAX_FILE_SIZE_BYTES

(* ------------------------------------------------------------------ *)
(* validate_local_file called on its own                               *)
(* ------------------------------------------------------------------ *)
\* local paths: present or not, every supported suffix and one that is not,
\* sizes and page counts around the two ceilings
ValidateInputs ==
    { LocalDoc(ex, e, sz, n) :
        ex \in BOOLEAN,
        e \in SUPPORTED_FORMATS \cup {".txt"},
        sz \in {0, 1, MAX_FILE_SIZE_BYTES - 1, MAX_FILE_SIZE_BYTES,
                MAX_FILE_SIZE_BYTES + 1, 250 * MiB},
        n \in {NoPageCount, 0, 1, MAX_PAGES - 1, MAX_PAGES, MAX_PAGES + 1,
               2 * MAX_PAGES + 100} }

InitValidate ==
    /\ HandlerInit
    /\ fn_name = ""
    /\ fn_input \in ValidateInputs
    /\ fn_result = << >>

CallValidateLocalFile ==
    /\ fn_name = ""
    /\ fn_name' = "validate_local_file"
    /\ fn_result' = validate_local_file(fn_input)
    /\ UNCHANGED << pc, inputVars, i, handle, elapsed, status_result, zip_url,
                    all_outputs, report, submitted, nFetch, seen,
                    fetchedAfterTerminal, downloads, outcome, createVars, sent,
                    fn_input, procVars >>

NextValidate == CallValidateLocalFile

SpecValidate == InitValidate /\ [][NextValidate]_vars

\* C14: for every valid local file, needs_splitting is set iff the file is a
\* .pdf larger than 200 MiB, use_page_ranges iff it is a .pdf of at most
\* 200 MiB whose page count is known and above 600; the two are never both
\* set, and an unknown page count neither rejects the file nor sets a flag.
C14_ValidationDecision ==
    fn_name = "validate_local_file" =>
        LET d == fn_input
            v == fn_result
        IN  /\ v.valid = (d.exists /\ d.ext \in SUPPORTED_FORMATS /\ d.file_size # 0)
            /\ v.valid =>
                  /\ v.needs_splitting =
                         (d.ext = ".pdf" /\ d.file_size > 200 * MiB)
                  /\ v.use_page_ranges =
                         (/\ d.ext = ".pdf"
                          /\ d.file_size <= 200 * MiB
                          /\ d.page_count # NoPageCount
                          /\ d.page_count > 600)
                  /\ ~(v.needs_splitting /\ v.use_page_ranges)
                  /\ d.page_count = NoPageCount => ~v.use_page_ranges

C14_Witness ==
    /\ fn_name = "validate_local_file"
    /\ fn_input.ext = ".pdf"
    /\ fn_input.file_size = MAX_FILE_SIZE_BYTES
    /\ fn_input.page_count = MAX_PAGES + 1
    /\ fn_result.valid
    /\ fn_result.use_page_ranges
    /\ ~fn_result.needs_splitting

(* ------------------------------------------------------------------ *)
(* Validation in front of the two submitting tools                     *)
(* ------------------------------------------------------------------ *)
\* no request of any kind has been made
NoNetworkCall ==
    /\ sent = << >>
    /\ submitted = << >>
    /\ \A k \in 1..Len(nFetch) : nFetch[k] = 0
    /\ downloads = << >>

\* the submissions among the requests sent
Submissions == { k \in 1..Len(sent) : sent[k].op # "head" }

\* the arguments the caller gave, as create_task / upload_local_file take them
CallerParams ==
    [model_version |-> args.model_version, is_ocr |-> args.is_ocr,
     enable_formula |-> args.enable_formula, enable_table |-> args.enable_table]

\* C15: for a local path that names no file, has an unsupported extension or
\* names a file of 0 bytes, create_parse_task and convert_to_markdown return
\* the validation error of that cause and make no network call at all.
C15_InvalidLocalNoNetwork ==
    (/\ pc # "idle"
     /\ ~args.doc.is_url
     /\ \/ ~args.doc.exists
        \/ args.doc.ext \notin SUPPORTED_FORMATS
        \/ args.doc.file_size = 0) =>
        /\ pc = "returned"
        /\ report.msg = "Validation error"
        /\ report.err = (IF ~args.doc.exists THEN "File not found"
                         ELSE IF args.doc.ext \notin SUPPORTED_FORMATS
                         THEN "Unsupported file format"
                         ELSE "File is empty (0 bytes)")
        /\ result = NoResult
        /\ NoNetworkCall

C15_Witness ==
    /\ pc = "returned"
    /\ args.name = "create_parse_task"
    /\ ~args.doc.is_url
    /\ args.doc.exists
    /\ args.doc.ext = ".pdf"
    /\ args.doc.file_size = 0
    /\ report.err = "File is empty (0 bytes)"

\* C16: for a URL whose HEAD answer gives a Content-Length above 200 MiB,
\* create_parse_task and convert_to_markdown return a validation error; the
\* HEAD probe is the only request made: no task creation, no status fetch,
\* no download.
C16_OversizedUrlRejected ==
    (/\ pc # "idle"
     /\ args.doc.is_url
     /\ args.doc.head_ok
     /\ args.doc.content_length > 200 * MiB) =>
        /\ pc = "returned"
        /\ report.msg = "Validation error"
        /\ report.err = "File size exceeds the limit for URL-based files"
        /\ result = NoResult
        /\ sent = << HeadRequest >>
        /\ submitted = << >>
        /\ \A k \in 1..Len(nFetch) : nFetch[k] = 0
        /\ downloads = << >>

C16_Witness ==
    /\ pc = "returned"
    /\ args.name = "convert_to_markdown"
    /\ args.doc.is_url
    /\ args.doc.ext = ".pdf"
    /\ args.doc.head_ok
    /\ args.doc.content_length = 500 * MiB
    /\ report.msg = "Validation error"

\* C17: a URL whose path ends in an extension outside the supported set
\* (".txt") is rejected with the unsupported-format error, and no task is
\* submitted for it.
C17_UnsupportedUrlExtensionRejected ==
    (/\ pc # "idle"
     /\ args.doc.is_url
     /\ args.doc.ext # ""
     /\ args.doc.ext \notin SUPPORTED_FORMATS) =>
        /\ pc = "returned"
        /\ report.msg = "Validation error"
        /\ report.err = "Unsupported file format"
        /\ Submissions = {}

\* C18: for a URL whose extension cannot be told, from its path or from the
\* Content-Type of the HEAD answer, validation succeeds with extension None,
\* the caller's parameters come out of auto-configuration unchanged, and the
\* URL is submitted with them.
C18_UnknownExtensionPassesThrough ==
    (/\ pc # "idle"
     /\ args.doc.is_url
     /\ args.doc.ext = ""
     /\ ~args.doc.head_ok
        \/ /\ args.doc.content_length <= 200 * MiB
           /\ \A e \in SUPPORTED_FORMATS :
                 MimeOf(e) # ContentTypeHead(args.doc.content_type)) =>
        /\ validation.valid
        /\ validation.extension = "None"
        /\ params = CallerParams
        /\ report.msg # "Validation error"
        /\ pc \notin {"submit", "create_submit"} =>
              /\ Submissions # {}
              /\ \A k \in Submissions :
                    /\ sent[k].op = "create_task"
                    /\ sent[k].path = "http://host/doc"
                    /\ sent[k].params = CallerParams

C18_Witness ==
    /\ pc = "returned"
    /\ args.name = "create_parse_task"
    /\ args.doc.is_url
    /\ args.doc.ext = ""
    /\ ~args.doc.head_ok
    /\ args.model_version = "pipeline"
    /\ args.is_ocr
    /\ ~args.enable_formula
    /\ result.kind = "answer"
    /\ result.answer.kind = "ok"
    /\ Len(sent) = 2

\* C19: for every URL, validation sets neither needs_splitting nor
\* use_page_ranges, and create_parse_task and convert_to_markdown make at most
\* one task-creation request, without page_ranges, and upload nothing.
C19_UrlNeverDecomposed ==
    (pc # "idle" /\ args.doc.is_url) =>
        /\ ~validation.needs_splitting
        /\ ~validation.use_page_ranges
        /\ Len(units) <= 1
        /\ Cardinality(Submissions) <= 1
        /\ \A k \in Submissions :
              /\ sent[k].op = "create_task"
              /\ sent[k].page_ranges = "None"
        /\ batch_ids = << >>

C19_Witness ==
    /\ pc = "returned"
    /\ args.name = "convert_to_markdown"
    /\ args.doc.is_url
    /\ args.doc.ext = ".pdf"
    /\ args.doc.content_length = 50 * MiB
    /\ Cardinality(Submissions) = 1
    /\ report.msg = "Conversion completed!"

(* ------------------------------------------------------------------ *)
(* upload_local_file called on its own                                 *)
(* ------------------------------------------------------------------ *)
\* what requests.post(BATCH_UPLOAD_URL) and res.json() give: an exception
\* with its text, a payload with code # 0, or a payload with code 0 whose
\* data holds batch_id and file_urls ("no-data": code 0 without "data")
SlotAnswers ==
    { [kind |-> "raises", text |-> t, batch_id |-> "None", file_urls |-> << >>] :
        t \in {"Connection aborted.", "Expecting value"} }
    \cup { [kind |-> "rejected", text |-> "None", batch_id |-> "None",
            file_urls |-> << >>],
           [kind |-> "no-data", text |-> "'data'", batch_id |-> "None",
            file_urls |-> << >>] }
    \cup { [kind |-> "ok", text |-> "None", batch_id |-> h, file_urls |-> us] :
             h \in Handles, us \in {<< >>, << "put1" >>} }

\* what open(file_path) and requests.put(upload_url) give: an exception with
\* its text, or a status code
PutAnswers ==
    { [kind |-> "raises", text |-> t, status_code |-> 0] :
        t \in {"Connection aborted.", "No such file or directory"} }
    \cup { [kind |-> "status", text |-> "None", status_code |-> c] :
             c \in {200, 403} }

UploadInputs ==
    { [page_ranges |-> pr, is_ocr |-> ocr, slot |-> sl, put |-> pt] :
        pr \in {"None", "", "0-599"}, ocr \in BOOLEAN,
        sl \in SlotAnswers, pt \in PutAnswers }

\* the value upload_local_file returns: {"error": error}, the service's
\* payload with code # 0 ("rejected"), or code 0 with the batch_id
UploadReturn(kind, id, error) == [kind |-> kind, id |-> id, error |-> error]

\* the request body of step 1 and the value returned
upload_local_file(inp) ==
    [file_info |-> [name |-> "doc.pdf", is_ocr |-> inp.is_ocr,
                    page_ranges |-> IF inp.page_ranges \in {"None", ""}
                                    THEN "None" ELSE inp.page_ranges],
     ret |->
        IF inp.slot.kind = "raises" \/ inp.slot.kind = "no-data"
        THEN UploadReturn("error", "None", inp.slot.text)
        ELSE IF inp.slot.kind = "rejected"
        THEN UploadReturn("rejected", "None", "None")
        ELSE IF inp.slot.file_urls = << >>
        THEN UploadReturn("error", "None", "No upload URL returned")
        ELSE IF inp.put.kind = "raises"
        THEN UploadReturn("error", "None", inp.put.text)
        ELSE IF inp.put.status_code # 200
        THEN UploadReturn("error", "None",
                          "Upload failed with status "
                              \o ToString(inp.put.status_code))
        ELSE UploadReturn("ok", inp.slot.batch_id, "None")]

InitUpload ==
    /\ HandlerInit
    /\ fn_name = ""
    /\ fn_input \in UploadInputs
    /\ fn_result = << >>

CallUploadLocalFile ==
    /\ fn_name = ""
    /\ fn_name' = "upload_local_file"
    /\ fn_result' = upload_local_file(fn_input)
    /\ UNCHANGED << pc, inputVars, i, handle, elapsed, status_result, zip_url,
                    all_outputs, report, submitted, nFetch, seen,
                    fetchedAfterTerminal, downloads, outcome, createVars, sent,
                    fn_input, procVars >>

NextUpload == CallUploadLocalFile

SpecUpload == InitUpload /\ [][NextUpload]_vars

\* the step of the upload that failed: 1 the upload-slot request (no code 0
\* with a non-empty file_urls), 2 the byte transfer (no HTTP 200), 0 neither
FailedStep(inp) ==
    IF ~(inp.slot.kind = "ok" /\ inp.slot.file_urls # << >>) THEN 1
    ELSE IF ~(inp.put.kind = "status" /\ inp.put.status_code = 200) THEN 2
    ELSE 0

\* C20: upload_local_file returns code 0 with a batch_id only when both
\* steps succeeded; when a step fails the value returned holds no batch_id
\* and tells which step failed: no failure of the other step returns the
\* same value.
C20_UploadReportsFailedStep ==
    fn_name = "upload_local_file" =>
        LET step == FailedStep(fn_input)
            ret  == fn_result.ret
        IN  /\ (ret.kind = "ok") = (step = 0)
            /\ step = 0 => ret.id = fn_input.slot.batch_id
            /\ step # 0 =>
                  /\ ret.id = "None"
                  /\ \A other \in UploadInputs :
                        upload_local_file(other).ret = ret =>
                            FailedStep(other) = step

(* ------------------------------------------------------------------ *)
(* auto_configure_params called on its own                             *)
(* ------------------------------------------------------------------ *)
\* the defaults of the signature
DefaultParams ==
    [model_version |-> "vlm", is_ocr |-> FALSE, enable_formula |-> TRUE,
     enable_table |-> TRUE]

ParamNames == {"model_version", "is_ocr", "enable_formula", "enable_table"}

\* a call: the extension, the keyword arguments that are given and their
\* values (the value of an argument not given is not looked at)
ParamsInputs ==
    { [extension |-> e, given |-> g, model_version |-> mv, is_ocr |-> ocr,
       enable_formula |-> ef, enable_table |-> et] :
        e \in SUPPORTED_FORMATS \cup {"None", ".PNG", ".HTML"},
        g \in SUBSET ParamNames,
        mv \in {"vlm", "pipeline"}, ocr \in BOOLEAN, ef \in BOOLEAN,
        et \in BOOLEAN }

\* the arguments as the function body sees them
Bound(inp) ==
    [model_version  |-> IF "model_version" \in inp.given
                        THEN inp.model_version ELSE DefaultParams.model_version,
     is_ocr         |-> IF "is_ocr" \in inp.given
                        THEN inp.is_ocr ELSE DefaultParams.is_ocr,
     enable_formula |-> IF "enable_formula" \in inp.given
                        THEN inp.enable_formula ELSE DefaultParams.enable_formula,
     enable_table   |-> IF "enable_table" \in inp.given
                        THEN inp.enable_table ELSE DefaultParams.enable_table]

InitParams ==
    /\ HandlerInit
    /\ fn_name = ""
    /\ fn_input \in ParamsInputs
    /\ fn_result = << >>

CallAutoConfigureParams ==
    /\ fn_name = ""
    /\ fn_name' = "auto_configure_params"
    /\ fn_result' =
           LET b == Bound(fn_input)
           IN  auto_configure_params(fn_input.extension, b.model_version,
                                     b.is_ocr, b.enable_formula, b.enable_table)
    /\ UNCHANGED << pc, inputVars, i, handle, elapsed, status_result, zip_url,
                    all_outputs, report, submitted, nFetch, seen,
                    fetchedAfterTerminal, downloads, outcome, createVars, sent,
                    fn_input, procVars >>

NextParams == CallAutoConfigureParams

SpecParams == InitParams /\ [][NextParams]_vars

UnitSuffix(k) ==
    IF flow = "split" THEN "_part" \o ToString(k)
    ELSE "_pages" \o units[k].page_ranges

\* C22: in a multi-unit convert_to_markdown every unit is downloaded to the
\* caller's output_path with `_part<i>` (chunk i) or `_pages<start>-<end>`
\* (a page range) inserted before the file extension; the path is made of
\* output_path and the unit alone, and two distinct units never get the same
\* path.
C22_UnitOutputPaths ==
    (Converting /\ flow \in MultiFlows) =>
        /\ \A n \in 1..Len(downloads) :
              LET k == downloads[n].unit + 1
              IN  downloads[n].path =
                      PathJoin(args.output_path.parent,
                               args.output_path.stem \o UnitSuffix(k)
                                   \o args.output_path.suffix)
        /\ \A n, m \in 1..Len(downloads) :
              downloads[n].unit # downloads[m].unit =>
                  downloads[n].path # downloads[m].path
        /\ \A j, k \in 1..Len(units) :
              j # k => UnitOutput(flow, args.output_path, j - 1, units[j])
                           # UnitOutput(flow, args.output_path, k - 1, units[k])

C22_Witness ==
    /\ Converting
    /\ flow = "split"
    /\ Len(downloads) = 2
    /\ downloads[1].path = "/out/result_part1.zip"
    /\ downloads[2].path = "/out/result_part2.zip"

\* C23: every path a convert_to_markdown report lists as saved is the path of
\* a download that returned success, for a unit whose status was `done`; no
\* path is listed for a unit that failed, timed out or was not downloaded.
C23_SavedPathsAreDownloaded ==
    Converting =>
        /\ \A q \in 1..Len(report.paths) :
              \E n \in 1..Len(downloads) :
                  /\ downloads[n].path = report.paths[q]
                  /\ downloads[n].ok
                  /\ seen[downloads[n].unit + 1] = "done"
                  /\ outcome[downloads[n].unit + 1] = << "success" >>
        /\ \A k \in 1..Len(units) :
              outcome[k] # << "success" >> =>
                  UnitOutput(flow, args.output_path, k - 1, units[k])
                      \notin Range(report.paths)

C23_Witness ==
    /\ Converting
    /\ pc = "returned"
    /\ flow = "split"
    /\ report.paths = << "/out/result_part1.zip", "/out/result_part2.zip" >>
    /\ \A n \in 1..Len(downloads) : downloads[n].ok

(* ------------------------------------------------------------------ *)
(* create_parse_task                                                   *)
(* ------------------------------------------------------------------ *)
Creating == args.name = "create_parse_task"

\* C24: create_parse_task never polls: for a URL, a single local file, a
\* split file and page ranges alike, and whatever the answers, it never
\* sleeps, makes no status fetch and no download; it validates, decomposes
\* and submits.
C24_CreateNeverPolls ==
    Creating =>
        /\ pc \in {"create_submit", "returned"}
        /\ elapsed = 0
        /\ \A k \in 1..Len(nFetch) : nFetch[k] = 0
        /\ \A k \in 1..Len(seen) : seen[k] = "none"
        /\ downloads = << >>
        /\ status_result = NoneStatus
        /\ \A k \in 1..Len(sent) :
              sent[k].op \in {"head", "create_task", "upload_local_file"}

C24_Witness ==
    /\ Creating
    /\ pc = "returned"
    /\ flow = "ranges"
    /\ Len(units) = 3
    /\ Len(sent) = 3
    /\ result.kind = "page_range_count"
    /\ Len(result.batch_ids) = 3

(* ------------------------------------------------------------------ *)
(* get_task_status                                                     *)
(* ------------------------------------------------------------------ *)
\* the arguments ("None": the key is absent, "": an empty string) and the
\* payload the service gives if it is asked
StatusInputs ==
    { [task_id |-> t, batch_id |-> b, answer |-> a] :
        t \in {"None", "", "id1"}, b \in {"None", "", "id2"},
        a \in TaskAnswers \cup BatchAnswers }

\* Python's truth of an argument read with arguments.get
Truthy(id) == id \notin {"None", ""}

\* what the handler does: the ValueError it raises ("None" for none), the
\* status fetches it makes and the payload it returns as JSON
get_task_status(inp) ==
    IF ~Truthy(inp.task_id) /\ ~Truthy(inp.batch_id)
    THEN [raised |-> "task_id or batch_id is required", fetches |-> << >>,
          payload |-> NoneStatus]
    ELSE IF Truthy(inp.task_id)
    THEN [raised |-> "None",
          fetches |-> << [op |-> "get_task_result", id |-> inp.task_id] >>,
          payload |-> inp.answer]
    ELSE [raised |-> "None",
          fetches |-> << [op |-> "get_batch_result", id |-> inp.batch_id] >>,
          payload |-> inp.answer]

InitStatus ==
    /\ HandlerInit
    /\ fn_name = ""
    /\ fn_input \in StatusInputs
    /\ fn_result = << >>

CallGetTaskStatus ==
    /\ fn_name = ""
    /\ fn_name' = "get_task_status"
    /\ fn_result' = get_task_status(fn_input)
    /\ UNCHANGED << pc, inputVars, i, handle, elapsed, status_result, zip_url,
                    all_outputs, report, submitted, nFetch, seen,
                    fetchedAfterTerminal, downloads, outcome, createVars, sent,
                    fn_input, procVars >>

NextStatus == CallGetTaskStatus

SpecStatus == InitStatus /\ [][NextStatus]_vars

\* an identifier is given: present and not empty
Given(id) == id # "None" /\ id # ""

\* C25: get_task_status expects exactly one identifier.  With task_id alone
\* it makes one fetch of the task endpoint, with batch_id alone one fetch of
\* the batch endpoint, and returns the payload as it came; with neither it
\* raises and makes no fetch; with both it does not go on as if the call
\* were well-formed.
C25_StatusPassThrough ==
    fn_name = "get_task_status" =>
        LET t == Given(fn_input.task_id)
            b == Given(fn_input.batch_id)
            r == fn_result
        IN  /\ (~t /\ ~b) => (r.raised # "None" /\ r.fetches = << >>)
            /\ (t /\ ~b) =>
                  /\ r.raised = "None"
                  /\ r.fetches = << [op |-> "get_task_result",
                                     id |-> fn_input.task_id] >>
                  /\ r.payload = fn_input.answer
            /\ (b /\ ~t) =>
                  /\ r.raised = "None"
                  /\ r.fetches = << [op |-> "get_batch_result",
                                     id |-> fn_input.batch_id] >>
                  /\ r.payload = fn_input.answer
            /\ (t /\ b) => r.raised # "None"

(* ------------------------------------------------------------------ *)
(* Process start: the credential and run_stdio                         *)
(* ------------------------------------------------------------------ *)
\* MINERU_API_KEY in the environment ("None": not set)
EnvValues == {"None", "", "key1", "key2"}

\* os.environ.get("MINERU_API_KEY", "")
EnvGet(env) == IF env = "None" THEN "" ELSE env

ToolNames ==
    {"create_parse_task", "get_task_status", "download_result",
     "convert_to_markdown", "convert_pdf_to_markdown"}

\* the tools whose handler passes API_TOKEN to a request
CredentialTools == ToolNames \ {"download_result"}

\* the guard of run_stdio
TokenMissing_Never(token) == FALSE

TokenMissing(token) == token = ""

\* the process after the module is loaded: fn_input is the environment,
\* fn_result the global API_TOKEN, whether the process has exited, whether
\* the stdio transport is open, and the requests made with the credential
InitStartup ==
    /\ HandlerInit
    /\ fn_name = ""
    /\ fn_input \in EnvValues
    /\ fn_result = [API_TOKEN |-> EnvGet(fn_input), exited |-> FALSE,
                    transport_open |-> FALSE, served |-> << >>]

startupFrame ==
    << pc, inputVars, i, handle, elapsed, status_result, zip_url, all_outputs,
       report, submitted, nFetch, seen, fetchedAfterTerminal, downloads,
       outcome, createVars, sent, fn_input, procVars >>

RunStdio ==
    /\ fn_name = ""
    /\ fn_name' = "run_stdio"
    /\ fn_result' = IF TokenMissing(fn_result.API_TOKEN)
                    THEN [fn_result EXCEPT !.exited = TRUE]
                    ELSE [fn_result EXCEPT !.transport_open = TRUE]
    /\ UNCHANGED startupFrame

\* a tool invocation arrives on the transport and is handled
ServeTool ==
    /\ fn_name = "run_stdio"
    /\ fn_result.transport_open
    /\ Len(fn_result.served) < MaxServed
    /\ \E tool \in ToolNames :
          fn_result' =
              [fn_result EXCEPT !.served =
                  Append(@, [tool |-> tool,
                             token |-> IF tool \in CredentialTools
                                       THEN fn_result.API_TOKEN
                                       ELSE "None"])]
    /\ UNCHANGED << fn_name, startupFrame >>

NextStartup == RunStdio \/ ServeTool

SpecStartup == InitStartup /\ [][NextStartup]_vars

\* C26: when MINERU_API_KEY is absent at process start the server exits
\* before the transport is opened: no tool invocation is served and no
\* request is made with an empty credential; the credential is never
\* modified after it was read.
C26_CredentialAtStartup ==
    /\ fn_result.API_TOKEN = (IF fn_input = "None" THEN "" ELSE fn_input)
    /\ fn_input \in {"None", ""} =>
          /\ ~fn_result.transport_open
          /\ fn_result.served = << >>
          /\ fn_name = "run_stdio" => fn_result.exited
    /\ fn_result.exited => ~fn_result.transport_open
    /\ \A k \in 1..Len(fn_result.served) :
          /\ fn_result.served[k].token # ""
          /\ fn_result.served[k].token \in {"None", fn_input}

C26_Witness ==
    /\ fn_name = "run_stdio"
    /\ fn_input = "None"
    /\ fn_result.exited
    /\ ~fn_result.transport_open
    /\ fn_result.served = << >>

(* ------------------------------------------------------------------ *)
(* No retry by the handler                                             *)
(* ------------------------------------------------------------------ *)
StatusErrorMsgs ==
    {"Error checking status", "Error checking chunk status",
     "Error checking page range status"}

\* the download_file calls made for unit k (1-based)
DownloadsOf(k) == { n \in 1..Len(downloads) : downloads[n].unit = k - 1 }

\* C27: the handler does not retry.  A status fetch that gave a transport
\* error ends the invocation at once: the report is the status-error report
\* with the error payload in it, never the job-failure report, and no other
\* fetch follows for the unit.  For each unit that reached `done`
\* download_file is called exactly once, and for no other unit.
C27_NoRetry ==
    /\ StatusErrorMsgs \cap JobFailedMsgs = {}
    /\ status_result.kind = "error" =>
          /\ pc = "returned"
          /\ outcome[i + 1] = << "poll-error" >>
          /\ seen[i + 1] = "none"
          /\ report.msg \in StatusErrorMsgs
          /\ report.has_status
          /\ report.status = status_result
          /\ DownloadsOf(i + 1) = {}
    /\ \A k \in 1..Len(units) :
          /\ (\E q \in 1..Len(outcome[k]) : outcome[k][q] = "poll-error") =>
                (k = i + 1 /\ status_result.kind = "error")
          /\ Cardinality(DownloadsOf(k)) =
                (IF seen[k] = "done" /\ ~(pc = "download" /\ k = i + 1)
                 THEN 1 ELSE 0)

C27_Witness ==
    /\ pc = "returned"
    /\ flow = "split"
    /\ i = 1
    /\ Cardinality(DownloadsOf(1)) = 1
    /\ nFetch[2] = 2
    /\ status_result.kind = "error"
    /\ report.msg = "Error checking chunk status"

(* ------------------------------------------------------------------ *)
(* The validator called repeatedly on one locator                      *)
(* ------------------------------------------------------------------ *)
\* the validator the handlers pick by _is_url
Classify(doc) ==
    IF doc.is_url THEN validate_url(doc) ELSE validate_local_file(doc)

\* fn_input: the file or URL as it was before the first validation and as
\* it is now; fn_result: the validations made, in order
InitClassify ==
    /\ HandlerInit
    /\ fn_name = ""
    /\ \E doc \in ValidateInputs \cup UrlDocuments :
          fn_input = [before |-> doc, now |-> doc]
    /\ fn_result = << >>

\* a validation that leaves the file unusable and the probe unanswered
Validate_Consumes ==
    /\ Len(fn_result) < MaxValidations
    /\ fn_name' = "validate"
    /\ fn_result' = Append(fn_result, Classify(fn_input.now))
    /\ fn_input' = [fn_input EXCEPT !.now.exists = FALSE, !.now.head_ok = FALSE]
    /\ UNCHANGED << pc, inputVars, i, handle, elapsed, status_result, zip_url,
                    all_outputs, report, submitted, nFetch, seen,
                    fetchedAfterTerminal, downloads, outcome, createVars, sent, procVars >>

\* validate_local_file / validate_url: they read the file or probe the URL
\* and write nothing
Validate ==
    /\ Len(fn_result) < MaxValidations
    /\ fn_name' = "validate"
    /\ fn_result' = Append(fn_result, Classify(fn_input.now))
    /\ UNCHANGED << pc, inputVars, i, handle, elapsed, status_result, zip_url,
                    all_outputs, report, submitted, nFetch, seen,
                    fetchedAfterTerminal, downloads, outcome, createVars, sent,
                    fn_input, procVars >>

NextClassify == Validate

SpecClassify == InitClassify /\ [][NextClassify]_vars

ToolOf_OneName(name) ==
    IF name = "convert_to_markdown" THEN "convert"
    ELSE IF name \in {"create_parse_task", "get_task_status", "download_result"}
    THEN name
    ELSE "unknown"

\* the branch of handle_call_tool a tool name selects
ToolOf(name) ==
    IF name \in {"convert_to_markdown", "convert_pdf_to_markdown"} THEN "convert"
    ELSE IF name \in {"create_parse_task", "get_task_status", "download_result"}
    THEN name
    ELSE "unknown"

\* an external call: the function called and what it is called with
Call(op, target, detail) == [op |-> op, target |-> target, detail |-> detail]

UnknownToolReport ==
    Report("Unknown tool", "None", "None", FALSE, NoneStatus, "ValueError",
           "None", << >>)

\* an external answer, as one shape: `kind` tells which part was asked for
Answer(kind, submit, fetch, ok) ==
    [kind |-> kind, submit |-> submit, fetch |-> fetch, ok |-> ok]

NoAnswerNeeded == Answer("none", NoAnswer, NoneStatus, FALSE)

\* the local variables of an invocation that has not started
Local0(a) ==
    [pc |-> "idle", args |-> a, params |-> NoParams, flow |-> "none",
     units |-> << >>, i |-> 0, handle |-> "None", elapsed |-> 0,
     status_result |-> NoneStatus, zip_url |-> "None", all_outputs |-> << >>,
     report |-> NoReport, calls |-> << >>]

\* the handler up to its first submission (split_large_pdf raising only for
\* a PDF whose pages cannot be counted)
HandlerStart(L) ==
    LET a   == L.args
        v   == Classify(a.doc)
        prm == auto_configure_params(v.extension, a.model_version, FALSE, TRUE, TRUE)
        fl  == IF v.valid THEN FlowOf(a.doc.is_url, v) ELSE "none"
        splits == fl = "split" => (v.extension = ".pdf" /\ v.page_count # NoPageCount)
        us  == IF fl = "none" \/ ~splits THEN << >> ELSE UnitsOf(fl, v)
        probed == [L EXCEPT !.calls = IF a.doc.is_url
                                      THEN << Call("head", "http://host/doc", "None") >>
                                      ELSE << >>]
    IN  IF ToolOf(a.name) # "convert"
        THEN [L EXCEPT !.pc = "returned", !.report = UnknownToolReport]
        ELSE IF ~v.valid
        THEN [probed EXCEPT !.pc = "returned", !.report = ValidationErrorReport(v)]
        ELSE IF fl = "split" /\ v.extension # ".pdf"
        THEN [probed EXCEPT !.pc = "returned", !.params = prm, !.flow = fl,
                            !.report = TooLargeReport]
        ELSE IF ~splits
        THEN [probed EXCEPT !.pc = "returned", !.params = prm, !.flow = fl,
                            !.report = SplitFailedReport]
        ELSE IF us = << >>
        THEN [probed EXCEPT !.pc = "returned", !.params = prm, !.flow = fl,
                            !.report = CompletedReport(fl, "None", "None", "None",
                                                       << >>)]
        ELSE [probed EXCEPT !.pc = "submit", !.params = prm, !.flow = fl,
                            !.units = us]

\* a task created with code 0 and no task_id is polled all the same
HandlerStep_PollsWithoutId(L, ans) ==
    LET unit == L.units[L.i + 1]
        multi == L.flow \in MultiFlows
    IN  CASE L.pc = "idle" -> HandlerStart(L)
          [] L.pc = "submit" ->
               LET called == [L EXCEPT !.calls =
                                 Append(@, Call(SubmitOp(L.flow), unit.path,
                                                unit.page_ranges))]
               IN  IF ans.submit.kind # "ok"
                   THEN [called EXCEPT !.pc = "returned",
                                       !.report = SubmitFailedReport(L.flow, unit,
                                                                     ans.submit)]
                   ELSE [called EXCEPT !.pc = "loop", !.handle = ans.submit.id,
                                       !.elapsed = 0,
                                       !.status_result = NoneStatus]
          [] L.pc = "loop" ->
               IF LoopContinues(L.elapsed, L.args.max_wait)
               THEN [L EXCEPT !.pc = "fetch",
                              !.elapsed = @ + L.args.poll_interval]
               ELSE [L EXCEPT !.pc = "returned",
                              !.report = TimeoutReport(L.flow, unit, L.handle,
                                                       L.status_result)]
          [] L.pc = "fetch" ->
               LET br == StatusBranch(L.flow, ans.fetch)
                   fetched == [L EXCEPT !.status_result = ans.fetch,
                                        !.calls =
                                           Append(@, Call(IF L.flow = "url"
                                                          THEN "get_task_result"
                                                          ELSE "get_batch_result",
                                                          L.handle, "None"))]
               IN  CASE br = "error" ->
                          [fetched EXCEPT !.pc = "returned",
                                          !.report = StatusErrorReport(L.flow, unit,
                                                                       ans.fetch)]
                     [] br = "failed" ->
                          [fetched EXCEPT !.pc = "returned",
                                          !.report = JobFailedReport(L.flow, unit,
                                                                     ans.fetch)]
                     [] br = "done" ->
                          [fetched EXCEPT !.pc = "download",
                                          !.zip_url = ans.fetch.full_zip_url]
                     [] OTHER -> [fetched EXCEPT !.pc = "loop"]
          [] L.pc = "download" ->
               LET out  == UnitOutput(L.flow, L.args.output_path, L.i, unit)
                   outs == Append(L.all_outputs, out)
                   got  == [L EXCEPT !.calls =
                               Append(@, Call("download_file", L.zip_url, out))]
               IN  IF ~ans.ok
                   THEN [got EXCEPT !.pc = "returned",
                                    !.report = DownloadFailedReport(L.flow, unit,
                                                                    "curl failed",
                                                                    L.zip_url)]
                   ELSE IF multi /\ L.i + 1 < Len(L.units)
                   THEN [got EXCEPT !.pc = "submit", !.all_outputs = outs,
                                    !.i = @ + 1]
                   ELSE [got EXCEPT !.pc = "returned",
                                    !.all_outputs = IF multi THEN outs ELSE @,
                                    !.report = CompletedReport(L.flow, L.handle, out,
                                                               L.zip_url, outs)]
          [] OTHER -> L

\* one step of the handler from where it stands, given the answer it asks for
HandlerStep(L, ans) ==
    LET unit == L.units[L.i + 1]
        multi == L.flow \in MultiFlows
    IN  CASE L.pc = "idle" -> HandlerStart(L)
          [] L.pc = "submit" ->
               LET called == [L EXCEPT !.calls =
                                 Append(@, Call(SubmitOp(L.flow), unit.path,
                                                unit.page_ranges))]
               IN  IF ans.submit.kind # "ok" \/ ans.submit.id = "None"
                   THEN [called EXCEPT !.pc = "returned",
                                       !.report = SubmitFailedReport(L.flow, unit,
                                                                     ans.submit)]
                   ELSE [called EXCEPT !.pc = "loop", !.handle = ans.submit.id,
                                       !.elapsed = 0,
                                       !.status_result = NoneStatus]
          [] L.pc = "loop" ->
               IF LoopContinues(L.elapsed, L.args.max_wait)
               THEN [L EXCEPT !.pc = "fetch",
                              !.elapsed = @ + L.args.poll_interval]
               ELSE [L EXCEPT !.pc = "returned",
                              !.report = TimeoutReport(L.flow, unit, L.handle,
                                                       L.status_result)]
          [] L.pc = "fetch" ->
               LET br == StatusBranch(L.flow, ans.fetch)
                   fetched == [L EXCEPT !.status_result = ans.fetch,
                                        !.calls =
                                           Append(@, Call(IF L.flow = "url"
                                                          THEN "get_task_result"
                                                          ELSE "get_batch_result",
                                                          L.handle, "None"))]
               IN  CASE br = "error" ->
                          [fetched EXCEPT !.pc = "returned",
                                          !.report = StatusErrorReport(L.flow, unit,
                                                                       ans.fetch)]
                     [] br = "failed" ->
                          [fetched EXCEPT !.pc = "returned",
                                          !.report = JobFailedReport(L.flow, unit,
                                                                     ans.fetch)]
                     [] br = "done" ->
                          [fetched EXCEPT !.pc = "download",
                                          !.zip_url = ans.fetch.full_zip_url]
                     [] OTHER -> [fetched EXCEPT !.pc = "loop"]
          [] L.pc = "download" ->
               LET out  == UnitOutput(L.flow, L.args.output_path, L.i, unit)
                   outs == Append(L.all_outputs, out)
                   got  == [L EXCEPT !.calls =
                               Append(@, Call("download_file", L.zip_url, out))]
               IN  IF ~ans.ok
                   THEN [got EXCEPT !.pc = "returned",
                                    !.report = DownloadFailedReport(L.flow, unit,
                                                                    "curl failed",
                                                                    L.zip_url)]
                   ELSE IF multi /\ L.i + 1 < Len(L.units)
                   THEN [got EXCEPT !.pc = "submit", !.all_outputs = outs,
                                    !.i = @ + 1]
                   ELSE [got EXCEPT !.pc = "returned",
                                    !.all_outputs = IF multi THEN outs ELSE @,
                                    !.report = CompletedReport(L.flow, L.handle, out,
                                                               L.zip_url, outs)]
          [] OTHER -> L

\* the answers the environment may give to the step the handler is at
AnswersFor(L) ==
    CASE L.pc = "submit" ->
           { Answer("submit", sa, NoneStatus, FALSE) :
               sa \in SubmitAnswers(L.flow = "url") }
      [] L.pc = "fetch" ->
           { Answer("fetch", NoAnswer, fa, FALSE) :
               fa \in (IF L.flow = "url" THEN TaskAnswers ELSE BatchAnswers) }
      [] L.pc = "download" ->
           { Answer("download", NoAnswer, NoneStatus, ok) :
               ok \in (IF L.zip_url = "None" THEN {FALSE} ELSE BOOLEAN) }
      [] OTHER -> { NoAnswerNeeded }

\* the caller's arguments of a conversion under tool name `name`
ConvertArgs(name, doc, out, mw, pi) ==
    [NoArgs EXCEPT !.name = name, !.doc = doc, !.output_path = out,
                   !.max_wait = mw, !.poll_interval = pi]

(* ------------------------------------------------------------------ *)
(* The two names of the conversion tool, on the same arguments and     *)
(* the same answers                                                    *)
(* ------------------------------------------------------------------ *)
\* one document for each way through the handler: rejected, URL, single
\* local file, page ranges, split
AliasDocuments ==
    { LocalDoc(TRUE, ".txt", 10 * MiB, NoPageCount),
      UrlDoc(".pdf", TRUE, 50 * MiB, "application/pdf"),
      LocalDoc(TRUE, ".png", 10 * MiB, NoPageCount),
      LocalDoc(TRUE, ".pdf", 50 * MiB, 650),
      LocalDoc(TRUE, ".pdf", 250 * MiB, 620) }

InitAlias ==
    /\ HandlerIdle
    /\ fn_name = ""
    /\ fn_input = 0
    /\ fn_result = << >>
    /\ \E doc \in AliasDocuments, out \in OutputPaths, mw \in 0..MaxAliasWait,
          pi \in {1} :
          locals = << Local0(ConvertArgs("convert_to_markdown", doc, out, mw, pi)),
                      Local0(ConvertArgs("convert_pdf_to_markdown", doc, out, mw,
                                         pi)) >>
    /\ answers = << << >>, << >> >>

\* both invocations take their next step, on one and the same answer
Lockstep ==
    /\ \E p \in 1..2 : locals[p].pc # "returned"
    /\ \E ans \in AnswersFor(locals[1]) :
          /\ locals' = [p \in 1..2 |-> HandlerStep(locals[p], ans)]
          /\ answers' = [p \in 1..2 |-> Append(answers[p], ans)]
    /\ UNCHANGED << pc, inputVars, i, handle, elapsed, status_result, zip_url,
                    all_outputs, report, submitted, nFetch, seen,
                    fetchedAfterTerminal, downloads, outcome, createVars, sent,
                    fnVars >>

NextAlias == Lockstep

SpecAlias == InitAlias /\ [][NextAlias]_vars

\* an invocation's local variables without the tool name
Nameless(L) == [L EXCEPT !.args.name = ""]

\* C29: convert_to_markdown and convert_pdf_to_markdown are aliases: on the
\* same arguments and the same external answers the two make the same
\* external calls in the same order and return the same report.
C29_AliasesEquivalent ==
    /\ locals[1].args.name = "convert_to_markdown"
    /\ locals[2].args.name = "convert_pdf_to_markdown"
    /\ answers[1] = answers[2]
    /\ locals[1].calls = locals[2].calls
    /\ locals[1].report = locals[2].report
    /\ Nameless(locals[1]) = Nameless(locals[2])

C29_Witness ==
    /\ locals[2].pc = "returned"
    /\ locals[2].args.name = "convert_pdf_to_markdown"
    /\ locals[2].flow = "ranges"
    /\ Len(locals[2].units) = 2
    /\ locals[2].report.msg = "Conversion completed! File was split into page ranges."
    /\ Len(locals[2].calls) = 6
    /\ locals[1].report = locals[2].report

(* ------------------------------------------------------------------ *)
(* Two invocations of the conversion tool running concurrently         *)
(* ------------------------------------------------------------------ *)
PairDocuments ==
    { UrlDoc(".pdf", TRUE, 50 * MiB, "application/pdf"),
      LocalDoc(TRUE, ".pdf", 50 * MiB, 650) }

PairArgs ==
    { ConvertArgs("convert_to_markdown", doc,
                  CHOOSE o \in OutputPaths : o.suffix = ".zip", mw, 1) :
        doc \in PairDocuments, mw \in 0..MaxPairWait }

InitPair ==
    /\ HandlerIdle
    /\ fn_name = ""
    /\ fn_input = 0
    /\ fn_result = << >>
    /\ \E a1 \in PairArgs, a2 \in PairArgs :
          /\ ~a1.doc.is_url
          /\ a2.doc.is_url
          /\ a1.max_wait = MaxPairWait
          /\ a2.max_wait = MaxPairWait
          /\ locals = << Local0(a1), Local0(a2) >>
    /\ answers = << << >>, << >> >>

\* elapsed kept in one place for all invocations
Resume_SharedElapsed(p) ==
    /\ locals[p].pc # "returned"
    /\ \E ans \in AnswersFor(locals[p]) :
          LET mine == HandlerStep(locals[p], ans)
          IN  /\ locals' = [q \in 1..2 |->
                              IF q = p THEN mine
                              ELSE [locals[q] EXCEPT !.elapsed = mine.elapsed]]
              /\ answers' = [answers EXCEPT ![p] = Append(@, ans)]
    /\ UNCHANGED << pc, inputVars, i, handle, elapsed, status_result, zip_url,
                    all_outputs, report, submitted, nFetch, seen,
                    fetchedAfterTerminal, downloads, outcome, createVars, sent,
                    fnVars >>

\* the event loop runs invocation p for one step; every name the handler
\* assigns is a local of its own activation
Resume(p) ==
    /\ locals[p].pc # "returned"
    /\ \E ans \in AnswersFor(locals[p]) :
          /\ locals' = [locals EXCEPT ![p] = HandlerStep(@, ans)]
          /\ answers' = [answers EXCEPT ![p] = Append(@, ans)]
    /\ UNCHANGED << pc, inputVars, i, handle, elapsed, status_result, zip_url,
                    all_outputs, report, submitted, nFetch, seen,
                    fetchedAfterTerminal, downloads, outcome, createVars, sent,
                    fnVars >>

NextPair == \E p \in 1..2 : Resume(p)

SpecPair == InitPair /\ [][NextPair]_vars

\* the invocation run alone from L on the answers given, in order
RECURSIVE RunAlone(_, _)
RunAlone(L, anss) ==
    IF anss = << >> THEN L
    ELSE RunAlone(HandlerStep(L, Head(anss)), Tail(anss))

FetchStep == Len(nFetch') = Len(nFetch) /\ nFetch' # nFetch

\* a step that is one asyncio.sleep(poll_interval) and nothing else
SleepStep ==
    /\ pc = "loop"
    /\ elapsed' = elapsed + args.poll_interval
    /\ nFetch' = nFetch
    /\ submitted' = submitted
    /\ downloads' = downloads

\* C31: in every conversion flow a status fetch is made only by a handler that
\* has just slept one poll interval: the step before a fetch is a sleep, so no
\* fetch follows a submission directly and no two fetches of a unit follow
\* one another without a sleep in between.
C31_FetchAfterSleep ==
    [][ /\ FetchStep => (pc = "fetch" /\ pc' # "fetch")
        /\ pc' = "fetch" => SleepStep ]_vars

C31_Witness ==
    /\ Converting
    /\ flow = "ranges"
    /\ i = 1
    /\ pc = "fetch"
    /\ nFetch[2] = 1
    /\ nFetch[1] = 2
    /\ args.poll_interval = 1
    /\ elapsed = 2

(* ------------------------------------------------------------------ *)
(* Job Handles                                                         *)
(* ------------------------------------------------------------------ *)
SubmitOps == {"create_task", "upload_local_file"}

FetchOps == {"get_task_result", "get_batch_result"}

IsSubmitCall(c) == c.op \in SubmitOps

IsSubmitAnswer(a) == a.kind = "submit"

IsFetchAnswer(a) == a.kind = "fetch"

\* the submissions among the first n calls
SubmitsUpTo(calls, n) == Cardinality({ m \in 1..n : calls[m].op \in SubmitOps })

\* the status fetches made after the last submission
FetchesSinceSubmit(calls) ==
    Cardinality({ n \in 1..Len(calls) :
                    /\ calls[n].op \in FetchOps
                    /\ SubmitsUpTo(calls, n) = SubmitsUpTo(calls, Len(calls)) })

Uploads == SelectSeq(sent, LAMBDA r : r.op = "upload_local_file")

\* the chunk files split_large_pdf would write for the validated document
ChunkFiles ==
    { c.path : c \in Range(split_large_pdf("doc", validation.file_size,
                                           validation.page_count)) }

\* C33: in the page-range flow of create_parse_task and of
\* convert_to_markdown, the k-th upload is that of the original file with the
\* k-th expression of build_page_ranges, the expressions differ from one
\* another, and no unit is a chunk file of the decomposer.
C33_PageRangesKeepOriginal ==
    flow = "ranges" =>
        LET rs == build_page_ranges(validation.page_count)
            up == Uploads
        IN  /\ Len(units) = Len(rs)
            /\ Len(up) <= Len(rs)
            /\ \A k \in 1..Len(up) :
                  /\ up[k].path = "doc" \o validation.extension
                  /\ up[k].page_ranges = rs[k]
                  /\ \A j \in 1..(k - 1) : up[j].page_ranges # up[k].page_ranges
            /\ \A k \in 1..Len(units) : units[k].path \notin ChunkFiles

C33_Witness ==
    /\ Creating
    /\ flow = "ranges"
    /\ pc = "returned"
    /\ Len(Uploads) = 3
    /\ Uploads[3].page_ranges = "1200-1200"
    /\ Uploads[1].path = "doc.pdf"
    /\ Len(batch_ids) = 3

(* ------------------------------------------------------------------ *)
(* create_parse_task on a decomposed document                          *)
(* ------------------------------------------------------------------ *)
CreateFailedMsgs == {"Failed to upload chunk", "Failed for page range"}

\* what create_parse_task has collected and returned, at every moment
CreateListComplete ==
    (Creating /\ flow \in MultiFlows) =>
        /\ Len(batch_ids) <= Len(units)
        /\ \A k \in 1..Len(batch_ids) : batch_ids[k] \in Handles
        /\ pc = "create_submit" =>
              /\ Len(batch_ids) = i
              /\ result = NoResult
              /\ report = NoReport
        /\ (pc = "returned" /\ result # NoResult) =>
              /\ result.kind = (IF flow = "split" THEN "chunk_count"
                                ELSE "page_range_count")
              /\ result.batch_ids = batch_ids
              /\ Len(batch_ids) = Len(units)
              /\ result.count = Len(batch_ids)
              /\ report = ResultReport
        /\ (pc = "returned" /\ Len(batch_ids) < Len(units)) =>
              /\ result = NoResult
              /\ report.msg \in CreateFailedMsgs
              /\ i = Len(batch_ids)
              /\ report.unit = (IF flow = "split" THEN units[i + 1].path
                                ELSE units[i + 1].page_ranges)
              /\ report.err \in {"error", "rejected"}
              /\ report.paths = << >>

\* the list grows by the identifier of the unit in hand, at its end
CreateListInOrder ==
    (Creating /\ batch_ids' # batch_ids) =>
        /\ pc = "create_submit"
        /\ Len(batch_ids) = i
        /\ Len(sent') = Len(sent) + 1
        /\ Last(sent').path = units[i + 1].path
        /\ Last(sent').page_ranges = units[i + 1].page_ranges
        /\ \E h \in Handles : batch_ids' = Append(batch_ids, h)

\* C34: for a decomposed local document create_parse_task returns the
\* complete list or an error: on success batch_ids holds one identifier per
\* unit, appended in unit order, and the count reported is its length; when
\* unit k is not accepted the report is an error naming unit k and no list is
\* returned.
C34_CreateAllOrError == [] CreateListComplete /\ [][CreateListInOrder]_vars

C34_Witness ==
    /\ Creating
    /\ flow = "split"
    /\ pc = "returned"
    /\ Len(units) = 3
    /\ Len(batch_ids) = 2
    /\ report.msg = "Failed to upload chunk"
    /\ report.unit = units[3].path
    /\ result = NoResult

(* ------------------------------------------------------------------ *)
(* Local files over the byte ceiling that are not PDFs                 *)
(* ------------------------------------------------------------------ *)
\* the document named is a local file of a supported format other than PDF,
\* larger than MAX_FILE_SIZE_BYTES
OversizedNonPdf ==
    /\ pc # "idle"
    /\ ~args.doc.is_url
    /\ args.doc.exists
    /\ args.doc.ext \in SUPPORTED_FORMATS
    /\ args.doc.ext # ".pdf"
    /\ args.doc.file_size > MAX_FILE_SIZE_BYTES

\* C35: a local file that is not a PDF and is larger than the byte ceiling is
\* never uploaded: create_parse_task and convert_to_markdown return the
\* too-large report for it and make no request.
C35_OversizedNonPdfNotSubmitted ==
    OversizedNonPdf =>
        /\ sent = << >>
        /\ pc = "returned"
        /\ report = TooLargeReport

(* ------------------------------------------------------------------ *)
(* Units of the size-based decomposition                               *)
(* ------------------------------------------------------------------ *)
\* split_large_pdf was called for the validated document and returned
SplitReturned ==
    /\ pc # "idle"
    /\ validation.valid
    /\ validation.needs_splitting
    /\ report # SplitFailedReport
    /\ report # TooLargeReport

\* C36: whenever the validator sets needs_splitting, the decomposition gives
\* at least two units whatever the page count, none of them the original
\* file, and a completion report lists at least two artifacts.
C36_SplitYieldsTwoUnits ==
    SplitReturned =>
        /\ Len(units) >= 2
        /\ \A k \in 1..Len(units) : units[k].path # "doc.pdf"
        /\ report.msg \in CompletedMsgs => Len(report.paths) >= 2

(* ------------------------------------------------------------------ *)
(* The budget max_wait_seconds                                         *)
(* ------------------------------------------------------------------ *)
\* the handler is in the polling loop of the unit in hand
Polling == Converting /\ pc \in {"loop", "fetch", "download"}

\* the sleeps made for the unit in hand
SleepsOfUnit == nFetch[i + 1] + (IF pc = "fetch" THEN 1 ELSE 0)

\* elapsed is the sleep accumulated for the unit in hand and nothing else: it
\* is 0 when the unit's loop is entered, whatever earlier units took
ElapsedIsUnitSleep == Polling => elapsed = SleepsOfUnit * args.poll_interval

\* C37 as stated: for poll_interval > 0 a unit's accumulated sleep stays
\* below max_wait_seconds + poll_interval, and elapsed counts the sleeps of
\* the unit in hand only.
C37_BudgetPerUnit_AsStated ==
    /\ (Polling /\ args.poll_interval > 0) =>
          elapsed < args.max_wait + args.poll_interval
    /\ ElapsedIsUnitSleep

\* C37: for poll_interval > 0 a unit's accumulated sleep stays below
\* max(0, max_wait_seconds) + poll_interval, and elapsed counts the sleeps of
\* the unit in hand only, restarting at 0 for every unit, so that the time
\* earlier units took never shortens a later unit's budget.
C37_BudgetPerUnit ==
    /\ (Polling /\ args.poll_interval > 0) =>
          elapsed < Max(0, args.max_wait) + args.poll_interval
    /\ ElapsedIsUnitSleep

C37_Witness ==
    /\ Polling
    /\ flow = "ranges"
    /\ i = 1
    /\ pc = "loop"
    /\ args.max_wait = 3
    /\ args.poll_interval = 1
    /\ nFetch[1] = 2
    /\ nFetch[2] = 2
    /\ elapsed = 2

(* ------------------------------------------------------------------ *)
(* Number of status fetches before a timeout                           *)
(* ------------------------------------------------------------------ *)
\* the handler returned the timeout outcome for the unit in hand
TimedOut ==
    /\ Converting
    /\ pc = "returned"
    /\ units # << >>
    /\ outcome[i + 1] = << "timed-out" >>

\* C38: a unit that runs into the timeout was fetched exactly
\* ceil(max_wait_seconds / poll_interval) times when both are positive; with
\* max_wait_seconds <= 0 it was submitted and never fetched, and the timeout
\* report carries no status (None, dumped as null by the single-unit flows).
C38_FetchesBeforeTimeout ==
    TimedOut =>
        /\ WasSubmitted(i + 1)
        /\ report.msg \in TimeoutMsgs
        /\ (args.poll_interval > 0 /\ args.max_wait > 0) =>
              nFetch[i + 1] = CeilDiv(args.max_wait, args.poll_interval)
        /\ args.max_wait <= 0 =>
              /\ nFetch[i + 1] = 0
              /\ status_result = NoneStatus
              /\ report.status = NoneStatus
              /\ flow \notin MultiFlows => report.has_status

C38_Witness ==
    /\ TimedOut
    /\ flow = "url"
    /\ args.max_wait = 3
    /\ args.poll_interval = 2
    /\ nFetch[1] = 2
    /\ elapsed = 4
    /\ report.status.state = "running"

(* ------------------------------------------------------------------ *)
(* Status answers that are not terminal                                *)
(* ------------------------------------------------------------------ *)
\* a payload without an "error" key whose state is neither `done` nor
\* `failed`: the state is absent or another word, or (batch) extract_result
\* is missing or empty
NonTerminal(snap) ==
    \/ snap.kind = "empty"
    \/ snap.kind = "result" /\ snap.state \notin {"done", "failed"}

\* the step of a fetch answered by such a payload: the handler is back at
\* the loop test, having downloaded and reported nothing
NonTerminalIsPassedOver ==
    (FetchStep /\ NonTerminal(status_result')) =>
        /\ pc' = "loop"
        /\ downloads' = downloads
        /\ zip_url' = zip_url
        /\ all_outputs' = all_outputs
        /\ report' = NoReport
        /\ outcome' = outcome
        /\ elapsed' = elapsed

\* after such a payload the handler returns only when the budget is used up
NonTerminalEndsInTimeout ==
    (Converting /\ units # << >> /\ NonTerminal(status_result)) =>
        /\ pc \in {"loop", "fetch", "returned"}
        /\ pc = "returned" =>
              /\ outcome[i + 1] = << "timed-out" >>
              /\ ~(elapsed < args.max_wait)
              /\ downloads = << >> \/ Last(downloads).unit < i
        /\ pc = "loop" => report = NoReport

\* C39: a status answer with no error whose state is neither `done` nor
\* `failed` (absent, another word, or an empty extract_result) is not
\* terminal: it causes no download and no report, and polling goes on until
\* a terminal state or until the budget is used up.
C39_NonTerminalContinues ==
    [] NonTerminalEndsInTimeout /\ [][NonTerminalIsPassedOver]_vars

C39_Witness ==
    /\ Converting
    /\ flow = "single"
    /\ pc = "loop"
    /\ nFetch[1] = 2
    /\ status_result = Snap("empty", "None", "None", "None")
    /\ elapsed < args.max_wait
    /\ report = NoReport
    /\ downloads = << >>

(* ------------------------------------------------------------------ *)
(* The HEAD probe of a URL                                             *)
(* ------------------------------------------------------------------ *)
\* a tool was called on a URL
UrlProbed == pc # "idle" /\ args.doc.is_url

\* the HEAD request raised, or answered without Content-Length
ProbeGaveNoSize == ~args.doc.head_ok \/ args.doc.content_length = 0

\* the URL goes to the service as one unit, by one create_task
SubmittedAsOneUnit ==
    /\ flow = "url"
    /\ Len(units) = 1
    /\ Len(sent) <= 2
    /\ pc = "returned" =>
          /\ Len(sent) = 2
          /\ sent[2].op = "create_task"
          /\ sent[2].path = "http://host/doc"
          /\ sent[2].page_ranges = "None"

\* a URL is rejected by a reported size over the byte ceiling and by nothing
\* else
OnlySizeRejects ==
    ~validation.valid <=>
        (args.doc.head_ok /\ args.doc.content_length > MAX_FILE_SIZE_BYTES)

====
